---- MODULE Spec2Model ----
(***************************************************************************)
(* Verification model of the trading platform: the shared Auction Market   *)
(* strategy, the live auto-trading path, the order monitor, the backtest   *)
(* portfolio and the binary-market price writers.                          *)
(*                                                                         *)
(* Fixed-point convention: prices and ATR are integers in price units; a   *)
(* multiplier m is held as the integer PriceScale * m, so every level      *)
(* (entry, stop, target) and every cash amount is an integer in units of   *)
(* 1/PriceScale of a price unit.  All divisions of the code that are       *)
(* compared against a constant are modelled by exact cross-multiplication. *)
(***************************************************************************)
EXTENDS Integers, Sequences, FiniteSets, TLC

VARIABLES
    st_in, st_out, st_live,                 \* inputs and results of the two entry evaluators
    risk_in, risk_out,                      \* inputs and result of PositionManager.can_open_position
    bt_config, bt_pc, bt_present, bt_idx, bars_at_time, bt_feed, bt_last_bar, portfolio,
    portfolio_b,                            \* the portfolio of a second run over the same store
    tracked_orders, broker_orders, now, om_result, next_order_id,
    at_account, at_positions, at_orders, at_tracked, at_log, at_next_id,
    provider_prices, monitor_prices, binary_prices, arb_thresholds,
    alert_log,                              \* the opportunity lines logged by the last price update
    binary_positions, txn_aborted, monitor_mode, early_exits, arb_result,
    strategy_config,                        \* the configuration the ArbitrageStrategy was built with
    ws_provider, ws_link,                   \* the Polymarket provider object and its connection
    alpaca_provider, alpaca_link,           \* the Alpaca provider object and its connection
    polling_worker,                         \* run_polling_provider: the sleeps of its loop
    monitor_loop,                           \* ArbitrageMonitor.start / _monitoring_loop position
    scheduler,                              \* engine main.run: loop counter and what the last iteration did
    http_call,                              \* the last HTTP call of a client: responses given, attempts made, what was logged
    order_flow, bucket_data, calculator,    \* profile calculator: order_flow rows, the data of each bucket, run's position
    profile_metrics,                        \* the profile_metrics row last computed
    detected,                               \* the (state, confidence) last determined
    current_bars, candle_table, emitted, trades_received, ticks_forwarded \* the Alpaca aggregator: open bars, the candles table, candles emitted per minute, trades and ticks

stVars   == <<st_in, st_out, st_live>>
riskVars == <<risk_in, risk_out>>
btVars   == <<bt_config, bt_pc, bt_present, bt_idx, bars_at_time, bt_feed, bt_last_bar, portfolio, portfolio_b>>
omVars   == <<tracked_orders, broker_orders, now, om_result, next_order_id>>
atVars   == <<at_account, at_positions, at_orders, at_tracked, at_log, at_next_id>>
arbVars  == <<provider_prices, monitor_prices, binary_prices, arb_thresholds, alert_log>>
axVars   == <<binary_positions, txn_aborted, monitor_mode, early_exits, arb_result, strategy_config>>
wsVars   == <<ws_provider, ws_link, alpaca_provider, alpaca_link, polling_worker, monitor_loop>>
schVars  == <<scheduler>>
rqVars   == <<http_call>>
ofVars   == <<order_flow, bucket_data, calculator>>
pmVars   == <<profile_metrics>>
msVars   == <<detected>>
agVars   == <<current_bars, candle_table, emitted, trades_received, ticks_forwarded>>
vars     == <<stVars, riskVars, btVars, omVars, atVars, arbVars, axVars, wsVars, schVars, rqVars, ofVars, pmVars, msVars, agVars>>

\* what an action of one subsystem leaves alone
other_than_stVars == <<riskVars, btVars, omVars, atVars, arbVars, axVars, wsVars, schVars, rqVars, ofVars, pmVars, msVars, agVars>>
other_than_riskVars == <<stVars, btVars, omVars, atVars, arbVars, axVars, wsVars, schVars, rqVars, ofVars, pmVars, msVars, agVars>>
other_than_btVars == <<stVars, riskVars, omVars, atVars, arbVars, axVars, wsVars, schVars, rqVars, ofVars, pmVars, msVars, agVars>>
other_than_omVars == <<stVars, riskVars, btVars, atVars, arbVars, axVars, wsVars, schVars, rqVars, ofVars, pmVars, msVars, agVars>>
other_than_atVars == <<stVars, riskVars, btVars, omVars, arbVars, axVars, wsVars, schVars, rqVars, ofVars, pmVars, msVars, agVars>>
other_than_arbVars == <<stVars, riskVars, btVars, omVars, atVars, axVars, wsVars, schVars, rqVars, ofVars, pmVars, msVars, agVars>>
other_than_axVars == <<stVars, riskVars, btVars, omVars, atVars, arbVars, wsVars, schVars, rqVars, ofVars, pmVars, msVars, agVars>>
other_than_wsVars == <<stVars, riskVars, btVars, omVars, atVars, arbVars, axVars, schVars, rqVars, ofVars, pmVars, msVars, agVars>>
other_than_schVars == <<stVars, riskVars, btVars, omVars, atVars, arbVars, axVars, wsVars, rqVars, ofVars, pmVars, msVars, agVars>>
other_than_rqVars == <<stVars, riskVars, btVars, omVars, atVars, arbVars, axVars, wsVars, schVars, ofVars, pmVars, msVars, agVars>>
other_than_ofVars == <<stVars, riskVars, btVars, omVars, atVars, arbVars, axVars, wsVars, schVars, rqVars, pmVars, msVars, agVars>>
other_than_pmVars == <<stVars, riskVars, btVars, omVars, atVars, arbVars, axVars, wsVars, schVars, rqVars, ofVars, msVars, agVars>>
other_than_msVars == <<stVars, riskVars, btVars, omVars, atVars, arbVars, axVars, wsVars, schVars, rqVars, ofVars, pmVars, agVars>>
other_than_agVars == <<stVars, riskVars, btVars, omVars, atVars, arbVars, axVars, wsVars, schVars, rqVars, ofVars, pmVars, msVars>>

Abs(x) == IF x < 0 THEN -x ELSE x
Min(a, b) == IF a < b THEN a ELSE b
Max(a, b) == IF a > b THEN a ELSE b

RECURSIVE SeqOfSet(_)
SeqOfSet(S) == IF S = {} THEN <<>>
               ELSE LET m == CHOOSE x \in S : \A y \in S : x <= y
                    IN <<m>> \o SeqOfSet(S \ {m})

(***************************************************************************)
(* Shared strategy: AuctionMarketStrategy                                  *)
(***************************************************************************)
PriceScale == 2

MarketStates == {"BALANCE", "IMBALANCE_UP", "IMBALANCE_DOWN", "UNKNOWN"}

\* AuctionMarketStrategy.__init__ defaults (multipliers held as PriceScale * m)
DefaultParams == [min_aggression_score |-> 70,
                  atr_stop_multiplier  |-> 3,
                  atr_target_multiplier |-> 6]

calculate_aggression_score(buy_pressure, sell_pressure, cvd_momentum) ==
    LET cvd == IF Abs(cvd_momentum) >= 1000 THEN 40
               ELSE IF Abs(cvd_momentum) >= 500 THEN 20 ELSE 0
        prs == IF buy_pressure >= 70 \/ sell_pressure >= 70 THEN 40
               ELSE IF buy_pressure >= 60 \/ sell_pressure >= 60 THEN 20 ELSE 0
        \* ratio = max(b/s, s/b); ratio >= 2.0 and ratio >= 1.5 by cross-multiplication
        rat == IF buy_pressure > 0 /\ sell_pressure > 0
               THEN IF buy_pressure >= 2 * sell_pressure \/ sell_pressure >= 2 * buy_pressure
                    THEN 20
                    ELSE IF 2 * buy_pressure >= 3 * sell_pressure
                            \/ 2 * sell_pressure >= 3 * buy_pressure
                         THEN 10 ELSE 0
               ELSE 0
    IN Min(cvd + prs + rat, 100)

determine_flow_direction(buy_pressure, sell_pressure, cvd_momentum) ==
    IF buy_pressure >= 70 \/ cvd_momentum > 500 THEN "BUY"
    ELSE IF sell_pressure >= 70 \/ cvd_momentum < -500 THEN "SELL"
    ELSE "NEUTRAL"

\* "no signal" (Python None) and "not evaluated yet", as records of the signal shape
NoSignal == [side |-> "none", entry_price |-> 0, stop_loss |-> 0, take_profit |-> 0,
             aggression_score |-> 0, flow_direction |-> "NEUTRAL"]
Unset    == [side |-> "unset", entry_price |-> 0, stop_loss |-> 0, take_profit |-> 0,
             aggression_score |-> 0, flow_direction |-> "NEUTRAL"]

Signal(side, price, stop, target, score, dir) ==
    [side |-> side, entry_price |-> PriceScale * price,
     stop_loss |-> stop, take_profit |-> target,
     aggression_score |-> score, flow_direction |-> dir]

\* variant that lets a zero ATR through
atr_invalid_if_negative(atr) == atr < 0

\* condition 4, "if atr <= 0: return None"
atr_invalid(atr) == atr <= 0

evaluate_entry_signal(params, market_state, buy_pressure, sell_pressure, cvd_momentum, current_price, atr) ==
    LET aggression_score == calculate_aggression_score(buy_pressure, sell_pressure, cvd_momentum)
        flow_direction   == determine_flow_direction(buy_pressure, sell_pressure, cvd_momentum)
        side == IF market_state = "IMBALANCE_UP" THEN "buy" ELSE "sell"
    IN IF market_state \notin {"IMBALANCE_UP", "IMBALANCE_DOWN"} THEN NoSignal
       ELSE IF aggression_score < params.min_aggression_score THEN NoSignal
       ELSE IF market_state = "IMBALANCE_UP" /\ flow_direction # "BUY" THEN NoSignal
       ELSE IF market_state = "IMBALANCE_DOWN" /\ flow_direction # "SELL" THEN NoSignal
       ELSE IF atr_invalid(atr) THEN NoSignal
       ELSE IF side = "buy"
            THEN Signal(side, current_price,
                        PriceScale * current_price - atr * params.atr_stop_multiplier,
                        PriceScale * current_price + atr * params.atr_target_multiplier,
                        aggression_score, flow_direction)
            ELSE Signal(side, current_price,
                        PriceScale * current_price + atr * params.atr_stop_multiplier,
                        PriceScale * current_price - atr * params.atr_target_multiplier,
                        aggression_score, flow_direction)

(***************************************************************************)
(* Live path: AutoTradingStrategy.evaluate_entry_signal and ATR levels     *)
(***************************************************************************)
\* atr is optional: <<>> is calculate_atr returning None (fewer than 14 candles), <<a>> is ATR a
get_atr_based_levels(current_price, side, atr_opt, atr_multiplier_stop, atr_multiplier_target) ==
    LET atr == IF atr_opt = <<>> THEN 0 ELSE atr_opt[1] IN
    IF atr_opt = <<>>
    THEN IF side = "buy"
         THEN <<(PriceScale * current_price * 98) \div 100, (PriceScale * current_price * 104) \div 100>>
         ELSE <<(PriceScale * current_price * 102) \div 100, (PriceScale * current_price * 96) \div 100>>
    ELSE IF side = "buy"
         THEN <<PriceScale * current_price - atr * atr_multiplier_stop,
                PriceScale * current_price + atr * atr_multiplier_target>>
         ELSE <<PriceScale * current_price + atr * atr_multiplier_stop,
                PriceScale * current_price - atr * atr_multiplier_target>>

live_evaluate_entry_signal(enabled, params, market_state, buy_pressure, sell_pressure, cvd_momentum, current_price, atr) ==
    LET aggression_score == (IF Abs(cvd_momentum) >= 1000 THEN 40 ELSE 0)
                            + (IF buy_pressure >= 70 \/ sell_pressure >= 70 THEN 40 ELSE 0)
        flow_direction == IF buy_pressure >= 70 \/ cvd_momentum > 500 THEN "BUY"
                          ELSE IF sell_pressure >= 70 \/ cvd_momentum < -500 THEN "SELL"
                          ELSE "NEUTRAL"
        side == IF market_state = "IMBALANCE_UP" THEN "buy" ELSE "sell"
        \* the multipliers are the literals 1.5 and 3.0, not the fetched parameters
        levels == get_atr_based_levels(current_price, side, atr, 3, 6)
    IN IF ~enabled THEN NoSignal
       ELSE IF market_state \notin {"IMBALANCE_UP", "IMBALANCE_DOWN"} THEN NoSignal
       ELSE IF aggression_score < params.min_aggression_score THEN NoSignal
       ELSE IF market_state = "IMBALANCE_UP" /\ flow_direction # "BUY" THEN NoSignal
       ELSE IF market_state = "IMBALANCE_DOWN" /\ flow_direction # "SELL" THEN NoSignal
       ELSE Signal(side, current_price, levels[1], levels[2], aggression_score, flow_direction)

(***************************************************************************)
(* Strategy calls: inputs drawn in Init, one action per evaluator          *)
(***************************************************************************)
PressurePairs == {<<75, 25>>, <<25, 75>>, <<50, 50>>, <<65, 35>>, <<35, 65>>, <<70, 30>>, <<100, 0>>}
CvdValues     == {-1500, -600, 0, 400, 600, 1000, 1500, 2000}
Prices        == {50, 100}
MaxATR        == 2
AtrValues     == 0 .. MaxATR
ParamSets     == {DefaultParams,
                  [min_aggression_score |-> 60, atr_stop_multiplier |-> 2, atr_target_multiplier |-> 4]}

StrategyInputs ==
    [market_state : MarketStates, pressure : PressurePairs, cvd_momentum : CvdValues,
     current_price : Prices, atr : AtrValues, params : ParamSets]

StInit == /\ st_in \in StrategyInputs
          /\ st_out = Unset
          /\ st_live = Unset

EvaluateShared ==
    /\ UNCHANGED other_than_stVars
    /\ st_out = Unset
    /\ st_out' = evaluate_entry_signal(st_in.params, st_in.market_state, st_in.pressure[1],
                                        st_in.pressure[2], st_in.cvd_momentum,
                                        st_in.current_price, st_in.atr)
    /\ UNCHANGED <<st_in, st_live>>

EvaluateLive ==
    /\ UNCHANGED other_than_stVars
    /\ st_live = Unset
    /\ st_live' = live_evaluate_entry_signal(TRUE, st_in.params, st_in.market_state,
                                              st_in.pressure[1], st_in.pressure[2],
                                              st_in.cvd_momentum, st_in.current_price, <<st_in.atr>>)
    /\ UNCHANGED <<st_in, st_out>>

StIdle == st_in = [market_state |-> "UNKNOWN", pressure |-> <<50, 50>>, cvd_momentum |-> 0,
                   current_price |-> 100, atr |-> 0, params |-> DefaultParams]
          /\ st_out = Unset /\ st_live = Unset

\* the four entry conditions, on the inputs of the call
FourConditions ==
    LET score == calculate_aggression_score(st_in.pressure[1], st_in.pressure[2], st_in.cvd_momentum)
        flow  == determine_flow_direction(st_in.pressure[1], st_in.pressure[2], st_in.cvd_momentum)
    IN /\ st_in.market_state \in {"IMBALANCE_UP", "IMBALANCE_DOWN"}
       /\ score >= st_in.params.min_aggression_score
       /\ \/ st_in.market_state = "IMBALANCE_UP" /\ flow = "BUY"
          \/ st_in.market_state = "IMBALANCE_DOWN" /\ flow = "SELL"
       /\ st_in.atr > 0

\* scenario S3: BALANCE, buy pressure 75, CVD momentum 2000, price 100, ATR 1
ScenarioS3 ==
    /\ st_in.market_state = "BALANCE" /\ st_in.pressure = <<75, 25>>
    /\ st_in.cvd_momentum = 2000 /\ st_in.current_price = 100 /\ st_in.atr = 1

\* scenario S4: IMBALANCE_UP, pressures 75/25, CVD momentum 1500, price 100, ATR 2,
\* min_aggression 70, multipliers 1.5 and 3.0
ScenarioS4 ==
    /\ st_in.market_state = "IMBALANCE_UP" /\ st_in.pressure = <<75, 25>>
    /\ st_in.cvd_momentum = 1500 /\ st_in.current_price = 100 /\ st_in.atr = 2
    /\ st_in.params = DefaultParams

LiveMatchesShared ==
    (st_out # Unset /\ st_live # Unset) =>
        /\ st_live.side = st_out.side
        /\ st_live.stop_loss = st_out.stop_loss
        /\ st_live.take_profit = st_out.take_profit

(***************************************************************************)
(* PositionManager: risk gates                                             *)
(***************************************************************************)
Symbols     == {"AAA", "BBB"}
SymbolOrder == <<"AAA", "BBB">>

\* PositionManager.__init__ defaults (MAX_POSITIONS, MAX_DAILY_LOSS_PCT, MIN_ACCOUNT_BALANCE)
DefaultRisk == [max_positions |-> 1, max_daily_loss_pct |-> 3, min_account_balance |-> 1000,
                risk_per_trade_pct |-> 1]

\* daily_pnl_pct < -max_daily_loss_pct, with daily_pnl_pct = (equity - last_equity) / last_equity * 100
\* when last_equity > 0 and 0 otherwise; the division is cleared by cross-multiplication
daily_loss_limit_hit(equity, last_equity, max_daily_loss_pct) ==
    IF last_equity > 0
    THEN (equity - last_equity) * 100 < (0 - max_daily_loss_pct) * last_equity
    ELSE 0 < 0 - max_daily_loss_pct

\* account.ok = FALSE is get_account() returning None; positions is the set of symbols
\* the broker reports open positions for
can_open_position(cfg, account, positions, symbol) ==
    IF ~account.ok THEN <<FALSE, "Cannot get account info">>
    ELSE IF account.portfolio_value < cfg.min_account_balance
         THEN <<FALSE, "Account balance too low">>
    ELSE IF account.account_blocked THEN <<FALSE, "Account is blocked">>
    ELSE IF account.trading_blocked THEN <<FALSE, "Trading is blocked">>
    ELSE IF Cardinality(positions) >= cfg.max_positions THEN <<FALSE, "Max positions reached">>
    ELSE IF symbol \in positions THEN <<FALSE, "Already have position">>
    ELSE IF daily_loss_limit_hit(account.equity, account.last_equity, cfg.max_daily_loss_pct)
         THEN <<FALSE, "Daily loss limit reached">>
    ELSE <<TRUE, "OK">>

Accounts ==
    [ok : BOOLEAN, portfolio_value : {999, 1000, 5000}, account_blocked : BOOLEAN,
     trading_blocked : BOOLEAN, equity : {9600, 9700, 9800, 10000}, last_equity : {0, 10000},
     buying_power : {5000}]

RiskConfigs == {DefaultRisk, [DefaultRisk EXCEPT !.max_positions = 2]}

RiskInit == /\ risk_in \in [cfg : RiskConfigs, account : Accounts,
                             positions : SUBSET Symbols, symbol : Symbols]
            /\ risk_out = <<FALSE, "unset">>

CanOpenPosition ==
    /\ UNCHANGED other_than_riskVars
    /\ risk_out[2] = "unset"
    /\ risk_out' = can_open_position(risk_in.cfg, risk_in.account, risk_in.positions, risk_in.symbol)
    /\ UNCHANGED risk_in

RiskIdle == /\ risk_in = [cfg |-> DefaultRisk,
                          account |-> [ok |-> TRUE, portfolio_value |-> 5000,
                                       account_blocked |-> FALSE, trading_blocked |-> FALSE,
                                       equity |-> 10000, last_equity |-> 10000,
                                       buying_power |-> 5000],
                          positions |-> {}, symbol |-> "AAA"]
            /\ risk_out = <<FALSE, "unset">>

\* the risk gates as the specification lists them, the daily one strict:
\* daily_pnl_pct > -max_daily_loss_pct
AllRiskGatesPass ==
    LET account == risk_in.account
        cfg == risk_in.cfg
    IN /\ account.ok
       /\ account.portfolio_value >= cfg.min_account_balance
       /\ ~account.account_blocked
       /\ ~account.trading_blocked
       /\ Cardinality(risk_in.positions) < cfg.max_positions
       /\ risk_in.symbol \notin risk_in.positions
       /\ IF account.last_equity > 0
          THEN (account.equity - account.last_equity) * 100
                   > (0 - cfg.max_daily_loss_pct) * account.last_equity
          ELSE 0 > 0 - cfg.max_daily_loss_pct

\* C7: can_open_position allows a new live position if and only if all risk gates pass,
\* the daily one being daily_pnl_pct strictly greater than -max_daily_loss_pct.
CanOpenIffAllGates ==
    risk_out[2] # "unset" => (risk_out[1] <=> AllRiskGatesPass)

(***************************************************************************)
(* Backtest: Position, BacktestPortfolio, BacktestEngine.run_backtest      *)
(***************************************************************************)
NoPosition == [direction |-> "none", entry_time |-> 0, entry_price |-> 0, quantity |-> 0,
               stop_loss |-> 0, take_profit |-> 0]

\* BacktestPortfolio.__init__ ; keys is the insertion order of the positions dict
NewPortfolio(initial_capital, max_positions) ==
    [initial_capital |-> initial_capital, cash |-> initial_capital,
     max_positions |-> max_positions,
     positions |-> [s \in Symbols |-> NoPosition], keys |-> <<>>,
     trades |-> <<>>, equity_curve |-> <<>>,
     signals_generated |-> [s \in Symbols |-> 0],
     signals_blocked |-> [s \in Symbols |-> 0]]

HasPosition(pf, s) == pf.positions[s].direction # "none"
OpenCount(pf) == Cardinality({s \in Symbols : HasPosition(pf, s)})

\* variant that forgets the positions already open
get_available_position_slots_of_empty(pf) == Max(0, pf.max_positions)

get_available_position_slots(pf) == Max(0, pf.max_positions - OpenCount(pf))

get_available_cash(pf) == pf.cash

can_enter_position(pf, cost) ==
    get_available_position_slots(pf) > 0 /\ cost <= get_available_cash(pf)

enter_position(pf, s, position, cost) ==
    IF ~can_enter_position(pf, cost) THEN [ok |-> FALSE, pf |-> pf]
    ELSE IF HasPosition(pf, s) THEN [ok |-> FALSE, pf |-> pf]
    ELSE [ok |-> TRUE,
          pf |-> [pf EXCEPT !.positions[s] = position,
                            !.keys = Append(@, s),
                            !.cash = @ - cost,
                            !.signals_generated[s] = @ + 1]]

RemoveKey(keys, s) == SelectSeq(keys, LAMBDA k : k # s)

exit_position(pf, s, exit_price, exit_time, reason) ==
    IF ~HasPosition(pf, s) THEN pf
    ELSE LET position == pf.positions[s]
             trade == [symbol |-> s, entry_time |-> position.entry_time,
                       entry_price |-> position.entry_price,
                       exit_time |-> exit_time, exit_price |-> exit_price,
                       exit_reason |-> reason, direction |-> position.direction,
                       quantity |-> position.quantity,
                       pnl |-> (exit_price - position.entry_price) * position.quantity]
         IN [pf EXCEPT !.cash = @ + exit_price * position.quantity,
                       !.positions[s] = NoPosition,
                       !.keys = RemoveKey(@, s),
                       !.trades = Append(@, trade)]

\* Position.should_exit: "" is (False, '')
should_exit(position, current_price) ==
    IF position.direction = "buy"
    THEN IF current_price <= position.stop_loss THEN "Stop Loss"
         ELSE IF current_price >= position.take_profit THEN "Take Profit"
         ELSE ""
    ELSE IF current_price >= position.stop_loss THEN "Stop Loss"
         ELSE IF current_price <= position.take_profit THEN "Take Profit"
         ELSE ""

\* a bar is [present, time, close] with close in price units; Lvl puts a price on the level scale
Lvl(p) == PriceScale * p
NoBar == [present |-> FALSE, time |-> 0, close |-> 0]

\* keys of bars_at_time in dict order: the symbols in load order that have a bar
BarSymbols(bars) == SelectSeq(SymbolOrder, LAMBDA s : bars[s].present)

RECURSIVE check_stops_and_targets_from(_, _, _)
check_stops_and_targets_from(pf, bars, i) ==
    LET syms == BarSymbols(bars) IN
    IF i > Len(syms) THEN pf
    ELSE LET s == syms[i]
             reason == should_exit(pf.positions[s], Lvl(bars[s].close))
             pf2 == IF HasPosition(pf, s) /\ reason # ""
                    THEN exit_position(pf, s, Lvl(bars[s].close), bars[s].time, reason)
                    ELSE pf
         IN check_stops_and_targets_from(pf2, bars, i + 1)

check_stops_and_targets(pf, bars) == check_stops_and_targets_from(pf, bars, 1)

\* BacktestEngine._calculate_position_cost; int(a / b) of non-negative operands is a \div b
calculate_position_cost(pf, risk_per_trade_pct, signal, available_cash) ==
    LET entry_price == signal.entry_price
        stop_distance == Abs(entry_price - signal.stop_loss)
        quantity == (pf.initial_capital * risk_per_trade_pct) \div (100 * stop_distance)
        cost == quantity * entry_price
        max_quantity == available_cash \div entry_price
    IN IF stop_distance = 0 THEN 0
       ELSE IF cost > available_cash
            THEN IF max_quantity > 0 THEN max_quantity * entry_price ELSE 0
            ELSE cost

\* what the store holds for a symbol at a timestamp: latest market_state row, order-flow rows
\* (pressures of the newest row, CVD change over the window) and the 14-bar ATR
NoFeed == [market_state |-> "UNKNOWN", pressure |-> <<50, 50>>, cvd_momentum |-> 0, atr |-> 0]
FeedChoices ==
    {[market_state |-> "IMBALANCE_UP",   pressure |-> <<75, 25>>, cvd_momentum |-> 1500,  atr |-> 2],
     [market_state |-> "IMBALANCE_DOWN", pressure |-> <<25, 75>>, cvd_momentum |-> -1500, atr |-> 1],
     [market_state |-> "BALANCE",        pressure |-> <<50, 50>>, cvd_momentum |-> 0,     atr |-> 1]}

\* BacktestEngine.check_entry_signal: the current price is the newest close at or before the
\* timestamp, which is the close of the symbol's bar at that timestamp
check_entry_signal(params, feed, close) ==
    IF feed.atr <= 0 THEN NoSignal
    ELSE evaluate_entry_signal(params, feed.market_state, feed.pressure[1], feed.pressure[2],
                               feed.cvd_momentum, close, feed.atr)

NewPosition(signal, timestamp, position_cost) ==
    [direction |-> signal.side, entry_time |-> timestamp, entry_price |-> signal.entry_price,
     quantity |-> position_cost \div signal.entry_price,
     stop_loss |-> signal.stop_loss, take_profit |-> signal.take_profit]

\* the entry loop of run_backtest over list(bars_at_time.keys()); st carries the portfolio and
\* the locals available_slots / available_cash; a break ends the recursion
RECURSIVE entry_loop(_, _, _, _, _, _)
entry_loop(st, cfg, bars, feed, timestamp, i) ==
    LET syms == BarSymbols(bars) IN
    IF i > Len(syms) THEN st
    ELSE LET s == syms[i]
             signal == check_entry_signal(DefaultParams, feed[s], bars[s].close)
             position_cost == calculate_position_cost(st.pf, cfg.risk_per_trade_pct, signal,
                                                      st.available_cash)
             r == enter_position(st.pf, s, NewPosition(signal, timestamp, position_cost),
                                 position_cost)
         IN IF HasPosition(st.pf, s) \/ signal = NoSignal THEN entry_loop(st, cfg, bars, feed, timestamp, i + 1)
            ELSE IF position_cost <= 0 THEN entry_loop(st, cfg, bars, feed, timestamp, i + 1)
            ELSE IF ~r.ok THEN entry_loop(st, cfg, bars, feed, timestamp, i + 1)
            ELSE LET st2 == [pf |-> r.pf,
                             available_slots |-> st.available_slots - 1,
                             available_cash |-> st.available_cash - position_cost]
                 IN IF st2.available_slots <= 0 \/ st2.available_cash <= 0 THEN st2
                    ELSE entry_loop(st2, cfg, bars, feed, timestamp, i + 1)

check_entries(pf, cfg, bars, feed, timestamp) ==
    LET st == [pf |-> pf, available_slots |-> get_available_position_slots(pf),
               available_cash |-> get_available_cash(pf)]
    IN IF st.available_slots > 0 /\ st.available_cash > 0
       THEN entry_loop(st, cfg, bars, feed, timestamp, 1).pf
       ELSE pf

\* BacktestDataLoader.load_and_merge_candles: the key order of all_bars_by_time. Symbols are
\* loaded in list order, each series ascending in time; a timestamp gets its key when first seen
RECURSIVE SeqRange(_)
SeqRange(q) == IF q = <<>> THEN {} ELSE {Head(q)} \cup SeqRange(Tail(q))

RECURSIVE merge_from(_, _, _)
merge_from(present, acc, i) ==
    IF i > Len(SymbolOrder) THEN acc
    ELSE merge_from(present,
                    acc \o SeqOfSet(present[SymbolOrder[i]] \ SeqRange(acc)),
                    i + 1)

load_and_merge_candles(present) == merge_from(present, <<>>, 1)

\* end of run_backtest: close what is still open, in positions-dict order, at the last bar
RECURSIVE close_remaining(_, _, _)
close_remaining(pf, keys, last_bar) ==
    IF keys = <<>> THEN pf
    ELSE LET s == Head(keys)
             pf2 == IF last_bar[s].present
                    THEN exit_position(pf, s, Lvl(last_bar[s].close), last_bar[s].time,
                                       "End of Backtest")
                    ELSE pf
         IN close_remaining(pf2, Tail(keys), last_bar)

\* BacktestPortfolio.record_equity_point
RECURSIVE positions_value(_, _, _)
positions_value(pf, bars, keys) ==
    IF keys = <<>> THEN 0
    ELSE LET s == Head(keys)
             price == IF bars[s].present THEN Lvl(bars[s].close) ELSE pf.positions[s].entry_price
         IN pf.positions[s].quantity * price + positions_value(pf, bars, Tail(keys))

\* variant that settles the cash to the marked equity
record_equity_point_settling(pf, timestamp, bars) ==
    [pf EXCEPT !.cash = pf.cash + positions_value(pf, bars, pf.keys),
               !.equity_curve = Append(@, [time |-> timestamp, equity |-> pf.cash, cash |-> pf.cash,
                                           open_positions |-> OpenCount(pf)])]

record_equity_point(pf, timestamp, bars) ==
    [pf EXCEPT !.equity_curve =
        Append(@, [time |-> timestamp, equity |-> pf.cash + positions_value(pf, bars, pf.keys),
                   cash |-> pf.cash, open_positions |-> OpenCount(pf)])]

(***************************************************************************)
(* The backtest script backtest.py: the same replay with its own position  *)
(* book-keeping                                                            *)
(***************************************************************************)
\* parameters of main(): atr_stop_multiplier 2.0, atr_target_multiplier 3.0
ScriptParams == [min_aggression_score |-> 70,
                 atr_stop_multiplier  |-> 4,
                 atr_target_multiplier |-> 6]

\* BacktestEngine.exit_position of the script: the bar gives exit price and exit time
script_exit_position(pf, s, bar, reason) == exit_position(pf, s, Lvl(bar.close), bar.time, reason)

\* BacktestEngine.update_positions of the script, for every bar of the timestamp: the stop is
\* tested below and the target above whatever the direction of the position
RECURSIVE script_update_positions_from(_, _, _)
script_update_positions_from(pf, bars, i) ==
    LET syms == BarSymbols(bars) IN
    IF i > Len(syms) THEN pf
    ELSE LET s == syms[i]
             price == Lvl(bars[s].close)
             pf2 == IF ~HasPosition(pf, s) THEN pf
                    ELSE IF price <= pf.positions[s].stop_loss
                         THEN script_exit_position(pf, s, bars[s], "Stop Loss")
                    ELSE IF price >= pf.positions[s].take_profit
                         THEN script_exit_position(pf, s, bars[s], "Take Profit")
                    ELSE pf
         IN script_update_positions_from(pf2, bars, i + 1)

\* BacktestEngine.enter_position of the script, called with a position_cost
script_enter_position(pf, s, bar, signal, position_cost) ==
    LET quantity == position_cost \div signal.entry_price IN
    IF HasPosition(pf, s) THEN pf
    ELSE IF quantity = 0 \/ position_cost > pf.cash THEN pf
    ELSE [pf EXCEPT !.positions[s] = NewPosition(signal, bar.time, position_cost),
                    !.keys = Append(@, s),
                    !.cash = @ - position_cost]

\* the entry loop of the script's run_backtest: the locals shrink after every call of
\* enter_position, whether or not it opened a position
RECURSIVE script_entry_loop(_, _, _, _, _)
script_entry_loop(st, cfg, bars, feed, i) ==
    LET syms == BarSymbols(bars) IN
    IF i > Len(syms) THEN st
    ELSE LET s == syms[i]
             signal == check_entry_signal(ScriptParams, feed[s], bars[s].close)
             position_cost == calculate_position_cost(st.pf, cfg.risk_per_trade_pct, signal,
                                                      st.available_cash)
         IN IF HasPosition(st.pf, s) \/ signal = NoSignal THEN script_entry_loop(st, cfg, bars, feed, i + 1)
            ELSE IF position_cost <= 0 THEN script_entry_loop(st, cfg, bars, feed, i + 1)
            ELSE LET st2 == [pf |-> script_enter_position(st.pf, s, bars[s], signal, position_cost),
                             available_slots |-> st.available_slots - 1,
                             available_cash |-> st.available_cash - position_cost]
                 IN IF st2.available_slots <= 0 \/ st2.available_cash <= 0 THEN st2
                    ELSE script_entry_loop(st2, cfg, bars, feed, i + 1)

script_check_entries(pf, cfg, bars, feed) ==
    LET st == [pf |-> pf, available_slots |-> get_available_position_slots(pf),
               available_cash |-> get_available_cash(pf)]
    IN IF st.available_slots > 0 /\ st.available_cash > 0
       THEN script_entry_loop(st, cfg, bars, feed, 1).pf
       ELSE pf

\* end of the script's run_backtest: what is still open is closed at the symbol's last bar
RECURSIVE script_close_remaining(_, _, _)
script_close_remaining(pf, keys, last_bar) ==
    IF keys = <<>> THEN pf
    ELSE LET s == Head(keys)
             pf2 == IF last_bar[s].present
                    THEN script_exit_position(pf, s, last_bar[s], "End of Test")
                    ELSE pf
         IN script_close_remaining(pf2, Tail(keys), last_bar)

(***************************************************************************)
(* One run of run_backtest, step by step, for either engine                *)
(***************************************************************************)
Engines == {"engine", "script"}

\* update_positions and the stop/target check of a timestamp
replay_stops(cfg, pf, bars) ==
    IF cfg.engine = "script" THEN script_update_positions_from(pf, bars, 1)
    ELSE check_stops_and_targets(pf, bars)

\* the entry check of a timestamp, then the periodic equity point: hash_hit is whether
\* hash(str(timestamp)) % 100 == 0 in the process of this run (string hashes are seeded per
\* process); the script has a bare pass in that branch
replay_entries(cfg, pf, bars, feed, timestamp, hash_hit) ==
    LET pf2 == IF cfg.engine = "script" THEN script_check_entries(pf, cfg, bars, feed)
               ELSE check_entries(pf, cfg, bars, feed, timestamp)
    IN IF cfg.engine = "engine" /\ cfg.long_range /\ hash_hit
       THEN record_equity_point(pf2, timestamp, bars)
       ELSE pf2

replay_close(cfg, pf, last_bar) ==
    IF cfg.engine = "script" THEN script_close_remaining(pf, pf.keys, last_bar)
    ELSE close_remaining(pf, pf.keys, last_bar)

MaxTime == 2
Times   == 1 .. MaxTime
Closes  == {90, 110}

\* initial_capital is on the level scale (PriceScale * capital); long_range says whether the
\* merged range holds more than 100 timestamps, of which the replay below follows MaxTime
BtConfigs ==
    {[engine |-> "engine", long_range |-> FALSE, initial_capital |-> 2000, max_positions |-> 1, risk_per_trade_pct |-> 1],
     [engine |-> "engine", long_range |-> FALSE, initial_capital |-> 2000, max_positions |-> 2, risk_per_trade_pct |-> 1],
     [engine |-> "engine", long_range |-> TRUE,  initial_capital |-> 1100, max_positions |-> 2, risk_per_trade_pct |-> 5],
     [engine |-> "script", long_range |-> FALSE, initial_capital |-> 2000, max_positions |-> 1, risk_per_trade_pct |-> 1],
     [engine |-> "script", long_range |-> TRUE,  initial_capital |-> 1100, max_positions |-> 2, risk_per_trade_pct |-> 5]}

BtInit ==
    /\ bt_config \in BtConfigs
    /\ bt_present \in [Symbols -> SUBSET Times]
    /\ bt_pc = "bars"
    /\ bt_idx = 1
    /\ bars_at_time = [s \in Symbols |-> NoBar]
    /\ bt_feed = [s \in Symbols |-> NoFeed]
    /\ bt_last_bar = [s \in Symbols |-> NoBar]
    /\ portfolio = NewPortfolio(bt_config.initial_capital, bt_config.max_positions)
    /\ portfolio_b = NewPortfolio(bt_config.initial_capital, bt_config.max_positions)

Merged == load_and_merge_candles(bt_present)

\* loop body, first half: update_positions and check_stops_and_targets on the bars of the
\* next timestamp; the closes and the store rows of that timestamp are read here
BtBars ==
    /\ UNCHANGED other_than_btVars
    /\ bt_pc = "bars"
    /\ bt_idx <= Len(Merged)
    /\ LET t == Merged[bt_idx]
           here == {s \in Symbols : t \in bt_present[s]}
       IN \E close \in [here -> Closes], feed \in [here -> FeedChoices] :
            LET bars == [s \in Symbols |-> IF s \in here
                                           THEN [present |-> TRUE, time |-> t, close |-> close[s]]
                                           ELSE NoBar]
            IN /\ bars_at_time' = bars
               /\ bt_feed' = [s \in Symbols |-> IF s \in here THEN feed[s] ELSE NoFeed]
               /\ bt_last_bar' = [s \in Symbols |-> IF s \in here THEN bars[s] ELSE bt_last_bar[s]]
               /\ portfolio' = replay_stops(bt_config, portfolio, bars)
               /\ portfolio_b' = replay_stops(bt_config, portfolio_b, bars)
    /\ bt_pc' = "entries"
    /\ UNCHANGED <<bt_config, bt_present, bt_idx>>

\* loop body, second half: the entry signals of the timestamp
BtEntries ==
    /\ UNCHANGED other_than_btVars
    /\ bt_pc = "entries"
    /\ \E hash_hit, hash_hit_b \in (IF bt_config.long_range THEN BOOLEAN ELSE {FALSE}) :
         /\ portfolio' = replay_entries(bt_config, portfolio, bars_at_time, bt_feed,
                                        Merged[bt_idx], hash_hit)
         /\ portfolio_b' = replay_entries(bt_config, portfolio_b, bars_at_time, bt_feed,
                                          Merged[bt_idx], hash_hit_b)
    /\ bt_idx' = bt_idx + 1
    /\ bt_pc' = "bars"
    /\ bars_at_time' = [s \in Symbols |-> NoBar]
    /\ bt_feed' = [s \in Symbols |-> NoFeed]
    /\ UNCHANGED <<bt_config, bt_present, bt_last_bar>>

BtCloseRemaining ==
    /\ UNCHANGED other_than_btVars
    /\ bt_pc = "bars"
    /\ bt_idx > Len(Merged)
    /\ portfolio' = replay_close(bt_config, portfolio, bt_last_bar)
    /\ portfolio_b' = replay_close(bt_config, portfolio_b, bt_last_bar)
    /\ bt_pc' = "save"
    /\ UNCHANGED <<bt_config, bt_present, bt_idx, bars_at_time, bt_feed, bt_last_bar>>

\* analyzer.save_results / _save_constraint_analysis: the run is over
BtSave ==
    /\ UNCHANGED other_than_btVars
    /\ bt_pc = "save"
    /\ bt_pc' = "done"
    /\ UNCHANGED <<bt_config, bt_present, bt_idx, bars_at_time, bt_feed, bt_last_bar, portfolio,
                   portfolio_b>>

BtIdle ==
    /\ bt_config = [engine |-> "engine", long_range |-> FALSE, initial_capital |-> 2000,
                    max_positions |-> 1, risk_per_trade_pct |-> 1]
    /\ bt_present = [s \in Symbols |-> {}]
    /\ bt_pc = "idle"
    /\ bt_idx = 1
    /\ bars_at_time = [s \in Symbols |-> NoBar]
    /\ bt_feed = [s \in Symbols |-> NoFeed]
    /\ bt_last_bar = [s \in Symbols |-> NoBar]
    /\ portfolio = NewPortfolio(2000, 1)
    /\ portfolio_b = NewPortfolio(2000, 1)

\* C1: in a backtest run, after every portfolio operation (the stop/target check with its
\* exits, the entries of a timestamp, the end-of-run close) the number of open positions is
\* at most max_positions and cash is at least 0.  Within one stop/target pass positions only
\* close and cash only grows, within one entry pass positions only open and cash only
\* shrinks, so the states between the passes bound the states inside them.
PortfolioBounds ==
    /\ OpenCount(portfolio) <= portfolio.max_positions
    /\ portfolio.cash >= 0

\* C1 case: a position has been exited and the entries that follow fill every slot again
PortfolioFullAfterExit ==
    /\ bt_pc = "bars"
    /\ portfolio.max_positions = 2
    /\ OpenCount(portfolio) = portfolio.max_positions
    /\ Len(portfolio.trades) >= 1

\* a valid entry signal for symbol s at the timestamp being processed
ValidSignalFor(s) ==
    /\ bars_at_time[s].present
    /\ check_entry_signal(DefaultParams, bt_feed[s], bars_at_time[s].close) # NoSignal

\* C10: when the portfolio already holds max_positions open positions and a valid entry
\* signal arrives for another symbol, no new position is opened and signals_blocked of that
\* symbol grows by exactly 1.
BlockedSignalCounted ==
    [][BtEntries =>
         \A s \in Symbols :
            (/\ OpenCount(portfolio) = portfolio.max_positions
             /\ ~HasPosition(portfolio, s)
             /\ ValidSignalFor(s))
            => /\ ~HasPosition(portfolio', s)
               /\ portfolio'.signals_blocked[s] = portfolio.signals_blocked[s] + 1]_vars

\* C11: the replay processes the merged timestamps in ascending time order, also when the
\* symbols have bars at different times: the timestamp being processed is later than every
\* timestamp processed before it.
TimestampsAscending ==
    bt_pc = "entries" => \A j \in 1 .. bt_idx - 1 : Merged[j] < Merged[bt_idx]

\* C12: at the end of the range every position still open is force-closed at the close of
\* the symbol's last bar with exit reason 'End of Backtest', and none is open afterwards.
OpenPositionsForceClosed ==
    [][BtCloseRemaining =>
         \A s \in Symbols :
            HasPosition(portfolio, s)
            => /\ ~HasPosition(portfolio', s)
               /\ \E k \in Len(portfolio.trades) + 1 .. Len(portfolio'.trades) :
                     /\ portfolio'.trades[k].symbol = s
                     /\ portfolio'.trades[k].exit_reason = "End of Backtest"
                     /\ portfolio'.trades[k].exit_price = Lvl(bt_last_bar[s].close)]_vars

\* C13: two runs over the same stored data with the same symbols, range and parameters have
\* the same trade log (same trades, same fields, same order), whatever the string-hash seed
\* of each process makes of the periodic equity points.
SameTradeLog == portfolio_b.trades = portfolio.trades

\* C13 case: both runs are over, trades were made, and the two processes recorded different
\* equity points on the way
RunsDifferOnlyInEquityCurve ==
    /\ bt_pc = "done"
    /\ Len(portfolio.trades) >= 2
    /\ portfolio.equity_curve # portfolio_b.equity_curve

\* C36: in the backtest of the engine, for buy-side and sell-side positions alike, a trade
\* closed with reason 'Take Profit' has pnl >= 0 and one closed with 'Stop Loss' has pnl <= 0
StopAndTargetPnlSign ==
    bt_config.engine = "engine" =>
        \A i \in 1 .. Len(portfolio.trades) :
            /\ portfolio.trades[i].exit_reason = "Take Profit" => portfolio.trades[i].pnl >= 0
            /\ portfolio.trades[i].exit_reason = "Stop Loss" => portfolio.trades[i].pnl <= 0

\* C30: the quantity of a new position is floor(risk_amount / stop_distance) capped by
\* floor(available_cash / entry_price), with risk_amount = account_equity *
\* risk_per_trade_pct / 100 taken from the equity at the time of entry; stated for the first
\* position opened at a timestamp by a portfolio that holds none, whose equity is its cash
QuantityFromEquityAtEntry ==
    [][(BtEntries /\ portfolio.keys = <<>> /\ portfolio'.keys # <<>>) =>
        LET position == portfolio'.positions[portfolio'.keys[1]]
            account_equity == portfolio.cash
            stop_distance == Abs(position.entry_price - position.stop_loss)
        IN position.quantity =
               Min((account_equity * bt_config.risk_per_trade_pct) \div (100 * stop_distance),
                   portfolio.cash \div position.entry_price)]_vars

\* the side of its stop or target that the price is on, for the direction of the position
crossed_on_own_side(position, price) ==
    IF position.direction = "buy"
    THEN price <= position.stop_loss \/ price >= position.take_profit
    ELSE price >= position.stop_loss \/ price <= position.take_profit

\* C29: a position is exited on a stop or target only when the price has crossed that level
\* on the side of the position's direction (long: price <= stop or price >= target; short:
\* price >= stop or price <= target); the replay has no opposite-signal exit
ExitOnlyOnOwnSide ==
    [][BtBars =>
        \A s \in Symbols :
            (HasPosition(portfolio, s) /\ ~HasPosition(portfolio', s)) =>
                crossed_on_own_side(portfolio.positions[s], Lvl(bars_at_time'[s].close))]_vars

(***************************************************************************)
(* OrderMonitor (live): track_order, check_orders, reconcile_orders        *)
(***************************************************************************)
MaxOrders == 2
MaxClock  == 6
MaxPlaceTime == 1
OrderIds  == 1 .. MaxOrders

\* OrderMonitor.__init__ defaults
max_order_age_minutes == 5
max_slippage_pct      == 1

\* broker-side order status; "none" is an id the broker's order list does not contain
OpenStatuses   == {"new", "partially_filled"}
ClosedStatuses == {"filled", "canceled"}

\* variant that ignores the status filter
get_orders_any_status(orders, status, http_ok) ==
    IF ~http_ok THEN {} ELSE {id \in OrderIds : orders[id] # "none"}

\* AlpacaClient.get_orders: the list on HTTP 200, [] on any other response or exception
get_orders(orders, status, http_ok) ==
    IF ~http_ok THEN {}
    ELSE IF status = "open" THEN {id \in OrderIds : orders[id] \in OpenStatuses}
    ELSE {id \in OrderIds : orders[id] # "none"}

TrackedIds(tracked) == {tracked[i].id : i \in 1 .. Len(tracked)}

\* OrderMonitor.track_order: tracked_orders is a dict, held as its items in insertion order
track_order(tracked, order, entry_price, clock) ==
    LET info == [id |-> order.id, symbol |-> order.symbol, type |-> order.type,
                 entry_price |-> entry_price, placed_at |-> clock, status |-> order.status]
    IN IF order.id \in TrackedIds(tracked)
       THEN [i \in 1 .. Len(tracked) |-> IF tracked[i].id = order.id THEN info ELSE tracked[i]]
       ELSE Append(tracked, info)

\* abs(current_price - entry_price) / entry_price * 100 > max_slippage_pct, cross-multiplied
slippage_exceeded(current_price, entry_price) ==
    Abs(current_price - entry_price) * 100 > max_slippage_pct * entry_price

age_exceeded(clock, placed_at) == clock - placed_at > max_order_age_minutes

\* one pass of the loop of check_orders over list(tracked_orders.items()); acc carries the three
\* result lists, the ids deleted from tracking and the ids cancelled at the broker.
\* current_prices[s] = 0 is a symbol without a price; cancel_ok is the set of ids whose
\* DELETE the broker answers with 204
RECURSIVE check_orders_loop(_, _, _, _, _, _)
check_orders_loop(items, open_order_ids, current_prices, cancel_ok, clock, acc) ==
    IF items = <<>> THEN acc
    ELSE LET info == Head(items)
             rest == Tail(items)
             timeout == age_exceeded(clock, info.placed_at)
             slip == /\ current_prices[info.symbol] # 0
                     /\ info.type = "limit"
                     /\ slippage_exceeded(current_prices[info.symbol], info.entry_price)
             acc2 ==
               IF info.id \notin open_order_ids
               THEN [acc EXCEPT !.filled = Append(@, info), !.deleted = @ \cup {info.id}]
               ELSE IF timeout
               THEN IF info.id \in cancel_ok
                    THEN [acc EXCEPT !.cancelled = Append(@, [info |-> info, reason |-> "timeout"]),
                                     !.deleted = @ \cup {info.id},
                                     !.broker_cancelled = @ \cup {info.id}]
                    ELSE acc
               ELSE IF slip
               THEN IF info.id \in cancel_ok
                    THEN [acc EXCEPT !.cancelled = Append(@, [info |-> info, reason |-> "slippage"]),
                                     !.deleted = @ \cup {info.id},
                                     !.broker_cancelled = @ \cup {info.id}]
                    ELSE acc
               ELSE [acc EXCEPT !.pending = Append(@, info)]
         IN check_orders_loop(rest, open_order_ids, current_prices, cancel_ok, clock, acc2)

EmptyCheck == [filled |-> <<>>, cancelled |-> <<>>, pending |-> <<>>,
               deleted |-> {}, broker_cancelled |-> {}]

check_orders(tracked, orders, current_prices, http_ok, cancel_ok, clock) ==
    IF tracked = <<>> THEN EmptyCheck
    ELSE check_orders_loop(tracked, get_orders(orders, "open", http_ok), current_prices,
                           cancel_ok, clock, EmptyCheck)

\* statuses on which reconcile_orders drops an order after a status change
ReconcileTerminal == {"filled", "cancelled", "expired", "rejected"}

\* variant that leaves the tracked status as it was
sync_status_kept(info, new_status) == info

\* tracked_info['status'] = new_status
sync_status(info, new_status) == [info EXCEPT !.status = new_status]

RECURSIVE reconcile_loop(_, _, _, _)
reconcile_loop(items, orders, broker_order_ids, acc) ==
    IF items = <<>> THEN acc
    ELSE LET info == Head(items)
             new_status == orders[info.id]
             acc2 ==
               IF info.id \in broker_order_ids
               THEN IF info.status # new_status
                    THEN IF new_status \in ReconcileTerminal
                         THEN [acc EXCEPT !.synced = @ + 1, !.removed = @ + 1]
                         ELSE [acc EXCEPT !.synced = @ + 1,
                                          !.tracked = Append(@, sync_status(info, new_status))]
                    ELSE [acc EXCEPT !.tracked = Append(@, info)]
               ELSE [acc EXCEPT !.removed = @ + 1]
         IN reconcile_loop(Tail(items), orders, broker_order_ids, acc2)

reconcile_orders(tracked, orders, http_ok) ==
    IF tracked = <<>> THEN [tracked |-> <<>>, synced |-> 0, removed |-> 0]
    ELSE reconcile_loop(tracked, orders, get_orders(orders, "all", http_ok),
                        [tracked |-> <<>>, synced |-> 0, removed |-> 0])

\* what the last call returned
NoResult == [op |-> "none", filled |-> <<>>, cancelled |-> <<>>, pending |-> <<>>,
             synced |-> 0, removed |-> 0]

OmInit ==
    /\ tracked_orders = <<>>
    /\ broker_orders = [id \in OrderIds |-> "none"]
    /\ now = 0
    /\ om_result = NoResult
    /\ next_order_id = 1

\* a client places an order that the broker accepts and hands it to track_order
TrackOrder ==
    /\ UNCHANGED other_than_omVars
    /\ next_order_id <= MaxOrders
    /\ now <= MaxPlaceTime
    /\ \E type \in {"market", "limit"} :
         LET order == [id |-> next_order_id, symbol |-> "AAA", type |-> type, status |-> "new"]
         IN tracked_orders' = track_order(tracked_orders, order, 100, now)
    /\ broker_orders' = [broker_orders EXCEPT ![next_order_id] = "new"]
    /\ next_order_id' = next_order_id + 1
    /\ UNCHANGED <<now, om_result>>

\* the broker fills, cancels or expires an open order, or the order leaves the broker's list
BrokerUpdate ==
    /\ UNCHANGED other_than_omVars
    /\ \E id \in OrderIds, st \in {"partially_filled"} \cup ClosedStatuses \cup {"none"} :
         /\ broker_orders[id] \in OpenStatuses
         /\ broker_orders[id] # st
         /\ broker_orders' = [broker_orders EXCEPT ![id] = st]
    /\ UNCHANGED <<tracked_orders, now, om_result, next_order_id>>

Tick ==
    /\ UNCHANGED other_than_omVars
    /\ now < MaxClock
    /\ now' = now + 1
    /\ UNCHANGED <<tracked_orders, broker_orders, om_result, next_order_id>>

PriceMaps == {[s \in Symbols |-> 0], [s \in Symbols |-> 101], [s \in Symbols |-> 102]}

\* one call of check_orders with the given prices and broker answers
CheckOrdersWith(current_prices, http_ok, cancel_ok) ==
    LET r == check_orders(tracked_orders, broker_orders, current_prices, http_ok, cancel_ok, now)
    IN /\ tracked_orders' = SelectSeq(tracked_orders, LAMBDA info : info.id \notin r.deleted)
       /\ broker_orders' = [id \in OrderIds |-> IF id \in r.broker_cancelled THEN "canceled"
                                                 ELSE broker_orders[id]]
       /\ om_result' = [NoResult EXCEPT !.op = "check", !.filled = r.filled,
                                         !.cancelled = r.cancelled, !.pending = r.pending]
       /\ UNCHANGED <<now, next_order_id>>

CheckOrders ==
    /\ UNCHANGED other_than_omVars
    /\ \E current_prices \in PriceMaps, http_ok \in BOOLEAN, cancel_ok \in SUBSET TrackedIds(tracked_orders) :
           CheckOrdersWith(current_prices, http_ok, cancel_ok)

\* one call of reconcile_orders with the given broker answer
ReconcileOrdersWith(http_ok) ==
    LET r == reconcile_orders(tracked_orders, broker_orders, http_ok)
    IN /\ tracked_orders' = r.tracked
       /\ om_result' = [NoResult EXCEPT !.op = "reconcile",
                                         !.synced = r.synced, !.removed = r.removed]
       /\ UNCHANGED <<broker_orders, now, next_order_id>>

ReconcileOrders ==
    /\ UNCHANGED other_than_omVars
    /\ \E http_ok \in BOOLEAN : ReconcileOrdersWith(http_ok)

OmIdle == OmInit

\* how often an order id occurs in a list of tracked-order records
Occurrences(list, id) == Cardinality({j \in 1 .. Len(list) : list[j].id = id})

\* C3: in each check_orders cycle, every tracked order that the broker no longer reports as
\* open is reported in the filled list exactly once and removed from tracking.
FilledReportedOnce ==
    [][CheckOrders =>
         \A i \in 1 .. Len(tracked_orders) :
            broker_orders[tracked_orders[i].id] \notin OpenStatuses
            => /\ Occurrences(om_result'.filled, tracked_orders[i].id) = 1
               /\ tracked_orders[i].id \notin TrackedIds(tracked_orders')]_vars

\* C3 case: a check has reported an order the broker closed as filled and dropped it, while
\* another order is still pending
FilledAndPendingReported ==
    /\ om_result.op = "check"
    /\ Len(om_result.pending) >= 1
    /\ \E j \in 1 .. Len(om_result.filled) :
         /\ broker_orders[om_result.filled[j].id] \in ClosedStatuses
         /\ om_result.filled[j].id \notin TrackedIds(tracked_orders)

\* C4: in each check_orders cycle, every tracked order that is still open at the broker and
\* whose age exceeds max_order_age_minutes is cancelled and reported in the cancelled list
\* with reason 'timeout'.
TimedOutOrderCancelled ==
    [][CheckOrders =>
         \A i \in 1 .. Len(tracked_orders) :
            (/\ broker_orders[tracked_orders[i].id] \in OpenStatuses
             /\ now - tracked_orders[i].placed_at > max_order_age_minutes)
            => /\ broker_orders'[tracked_orders[i].id] = "canceled"
               /\ \E j \in 1 .. Len(om_result'.cancelled) :
                    /\ om_result'.cancelled[j].info.id = tracked_orders[i].id
                    /\ om_result'.cancelled[j].reason = "timeout"]_vars

\* C5: after reconcile_orders completes, every order id still tracked is one the broker's
\* order list contains, and its tracked status equals the status the broker reported.
ReconciledMatchesBroker ==
    [][ReconcileOrders =>
         \A i \in 1 .. Len(tracked_orders') :
            /\ broker_orders[tracked_orders'[i].id] # "none"
            /\ tracked_orders'[i].status = broker_orders[tracked_orders'[i].id]]_vars

\* C5 case: a reconciliation has synced a changed status onto an order that stays tracked
ReconcileSyncedAndKept ==
    /\ om_result.op = "reconcile"
    /\ om_result.synced >= 1
    /\ \E i \in 1 .. Len(tracked_orders) : tracked_orders[i].status = "partially_filled"

\* how often an order id occurs in the cancelled list, whose items carry the record and a reason
CancelledOccurrences(list, id) == Cardinality({j \in 1 .. Len(list) : list[j].info.id = id})

\* C33: for any broker responses, failed cancel requests included, every order tracked at the
\* start of a check_orders call appears in exactly one of the returned lists filled,
\* cancelled and pending
EveryOrderInOneList ==
    [][CheckOrders =>
         \A i \in 1 .. Len(tracked_orders) :
            Occurrences(om_result'.filled, tracked_orders[i].id)
              + CancelledOccurrences(om_result'.cancelled, tracked_orders[i].id)
              + Occurrences(om_result'.pending, tracked_orders[i].id) = 1]_vars

\* C34: when the broker order query fails, so that no order list is obtained, check_orders
\* and reconcile_orders report no tracked order as filled and remove none from tracking
QueryFailureKeepsOrders ==
    [][((\E current_prices \in PriceMaps, cancel_ok \in SUBSET TrackedIds(tracked_orders) :
            CheckOrdersWith(current_prices, FALSE, cancel_ok))
        \/ ReconcileOrdersWith(FALSE))
       => /\ om_result'.filled = <<>>
          /\ TrackedIds(tracked_orders') = TrackedIds(tracked_orders)]_vars

(***************************************************************************)
(* Live auto-trading: AutoTradingStrategy.check_and_execute, execute_trade *)
(***************************************************************************)
\* PositionManager.calculate_position_size; entry and stop are on the level scale, money in
\* price units, so risk_amount / risk_per_share = pv * pct * PriceScale / (100 * |entry - stop|)
live_calculate_position_size(cfg, account, entry_price, stop_loss_price) ==
    LET risk_per_share == Abs(entry_price - stop_loss_price)
        shares == IF risk_per_share = 0
                  THEN (account.portfolio_value * cfg.risk_per_trade_pct * PriceScale * 100)
                       \div (100 * entry_price * 2)
                  ELSE (account.portfolio_value * cfg.risk_per_trade_pct * PriceScale)
                       \div (100 * risk_per_share)
        max_shares_by_buying_power == (account.buying_power * PriceScale) \div entry_price
    IN IF ~account.ok \/ account.portfolio_value = 0 THEN 0
       ELSE Max(1, Min(shares, max_shares_by_buying_power))

NoOrder == [symbol |-> "", side |-> "", qty |-> 0, status |-> "none"]

AtInit ==
    /\ at_account \in {a \in Accounts : a.last_equity = 10000 /\ a.equity \in {9700, 10000}}
    /\ at_positions = {}
    /\ at_orders = [id \in OrderIds |-> NoOrder]
    /\ at_tracked = {}
    /\ at_log = {}
    /\ at_next_id = 1

LiveFeeds == FeedChoices

\* check_and_execute(symbol) with execute_trade inlined: the store rows are the feed, atr_ok is
\* whether calculate_atr finds 14 candles, accepted is the broker's answer to the bracket order
CheckAndExecute ==
    /\ UNCHANGED other_than_atVars
    /\ \E symbol \in Symbols, feed \in LiveFeeds, price \in Prices, atr_ok \in BOOLEAN, accepted \in BOOLEAN :
           LET signal == live_evaluate_entry_signal(TRUE, DefaultParams, feed.market_state,
                                                    feed.pressure[1], feed.pressure[2],
                                                    feed.cvd_momentum, price,
                                                    IF atr_ok THEN <<feed.atr>> ELSE <<>>)
               can_trade == can_open_position(DefaultRisk, at_account, at_positions, symbol)
               qty == live_calculate_position_size(DefaultRisk, at_account, signal.entry_price,
                                                   signal.stop_loss)
               placed == /\ symbol \notin at_positions
                         /\ signal # NoSignal
                         /\ can_trade[1]
                         /\ qty # 0
                         /\ accepted
                         /\ at_next_id <= MaxOrders
           IN /\ at_next_id <= MaxOrders
              /\ IF placed
                 THEN /\ at_orders' = [at_orders EXCEPT ![at_next_id] =
                                          [symbol |-> symbol, side |-> signal.side, qty |-> qty,
                                           status |-> "new"]]
                      /\ at_log' = at_log \cup {at_next_id}
                      /\ at_next_id' = at_next_id + 1
                 ELSE UNCHANGED <<at_orders, at_log, at_next_id>>
              /\ UNCHANGED <<at_account, at_positions, at_tracked>>

\* the broker fills the market entry of a bracket order: the position becomes visible
AtBrokerFill ==
    /\ UNCHANGED other_than_atVars
    /\ \E id \in OrderIds :
           /\ at_orders[id].status = "new"
           /\ at_orders' = [at_orders EXCEPT ![id].status = "filled"]
           /\ at_positions' = at_positions \cup {at_orders[id].symbol}
           /\ UNCHANGED <<at_account, at_tracked, at_log, at_next_id>>

\* a bracket leg (stop or target) closes the position at the broker
AtPositionClosed ==
    /\ UNCHANGED other_than_atVars
    /\ \E symbol \in at_positions :
           /\ at_positions' = at_positions \ {symbol}
           /\ UNCHANGED <<at_account, at_orders, at_tracked, at_log, at_next_id>>

AtIdle ==
    /\ at_account = [ok |-> TRUE, portfolio_value |-> 5000, account_blocked |-> FALSE,
                     trading_blocked |-> FALSE, equity |-> 10000, last_equity |-> 10000,
                     buying_power |-> 5000]
    /\ at_positions = {}
    /\ at_orders = [id \in OrderIds |-> NoOrder]
    /\ at_tracked = {}
    /\ at_log = {}
    /\ at_next_id = 1

\* C6: whenever the auto-trading task places a bracket order that the broker accepts, the
\* order's id is handed to the Order Monitor (track_order), so every accepted order is tracked.
AcceptedOrdersTracked ==
    \A id \in OrderIds : at_orders[id].status # "none" => id \in at_tracked

\* C35: across any sequence of ticks and fill timings, no new entry order is placed for a
\* symbol while an earlier entry order for that symbol has been accepted by the broker but
\* is not yet visible as an open position
NoEntryWhileOrderPending ==
    [][CheckAndExecute =>
         \A id \in OrderIds :
            (at_orders[id].status = "none" /\ at_orders'[id].status = "new") =>
                ~\E earlier \in OrderIds :
                    /\ at_orders[earlier].status = "new"
                    /\ at_orders[earlier].symbol = at_orders'[id].symbol
                    /\ at_orders[earlier].symbol \notin at_positions]_vars

(***************************************************************************)
(* Binary-market price writers: PolymarketWebSocketProvider and            *)
(* ArbitrageMonitor, both upserting binary_prices on (timestamp, symbol)   *)
(* Prices and thresholds are Decimals, held as integers in thousandths.    *)
(***************************************************************************)
Markets  == {"m1"}
MaxStamp == 2
Stamps   == 1 .. MaxStamp
Asks     == {465, 466}
Outcomes == {"YES", "NO"}

\* a cached side: ask = 0 is a side not seen yet
NoQuote == [bid |-> 0, ask |-> 0, timestamp |-> 0]
NoRow   == [written |-> FALSE, yes_ask |-> 0, no_ask |-> 0, spread |-> 0,
            arbitrage_opportunity |-> FALSE, writer |-> "none"]

\* A writer's self.spread_threshold is a Decimal that need not be a whole number of
\* thousandths, so it is held in half-thousandths: HalfMilli * t is the Decimal t exactly,
\* one more or one less is the binary double next to t.
HalfMilli == 2

\* float('0.ttt') for thresholds of 0.876 .. 1.000: the double nearest to the decimal lies
\* above it for 0.876 .. 0.937, below it for 0.938 .. 0.999, and on it for 0.875 and 1.000
FloatRoundsUp == 876 .. 937
FloatExact    == {875, 1000}

\* ingestion main: 'spread_threshold': float(os.getenv('POLYMARKET_SPREAD_THRESHOLD', '1.00')),
\* then PolymarketWebSocketProvider.__init__: Decimal(self.config.get('spread_threshold', ...))
provider_spread_threshold(configured) ==
    IF configured \in FloatExact THEN HalfMilli * configured
    ELSE IF configured \in FloatRoundsUp THEN HalfMilli * configured + 1
    ELSE HalfMilli * configured - 1

\* ArbitrageMonitor: Decimal(str(args.spread_threshold)), the shortest repr of the double
monitor_spread_threshold(configured) == HalfMilli * configured

\* PolymarketWebSocketProvider._insert_market_price: the row it upserts
provider_is_arbitrage(spread, spread_threshold) == HalfMilli * spread < spread_threshold

insert_market_price(market_data, spread_threshold) ==
    LET spread == market_data.yes_ask + market_data.no_ask
    IN [written |-> TRUE, yes_ask |-> market_data.yes_ask, no_ask |-> market_data.no_ask,
        spread |-> spread,
        arbitrage_opportunity |-> provider_is_arbitrage(spread, spread_threshold),
        writer |-> "provider"]

\* ArbitrageMonitor._try_insert_price_data: the row it upserts
monitor_is_arbitrage(spread, spread_threshold) == HalfMilli * spread < spread_threshold

try_insert_price_data(yes_price, no_price, spread_threshold) ==
    LET spread == yes_price.ask + no_price.ask
    IN [written |-> TRUE, yes_ask |-> yes_price.ask, no_ask |-> no_price.ask,
        spread |-> spread,
        arbitrage_opportunity |-> monitor_is_arbitrage(spread, spread_threshold),
        writer |-> "monitor"]

\* configured thresholds of the two writers, in thousandths: the defaults
\* (POLYMARKET_SPREAD_THRESHOLD 1.00, --spread-threshold 0.995) and both set to 0.931
ThresholdPairs == {[provider |-> 1000, monitor |-> 995], [provider |-> 931, monitor |-> 931]}

ArbInit ==
    /\ arb_thresholds \in ThresholdPairs
    /\ provider_prices = [m \in Markets |-> [yes_ask |-> 0, no_ask |-> 0, timestamp |-> 0]]
    /\ monitor_prices = [m \in Markets |-> [o \in Outcomes |-> NoQuote]]
    /\ binary_prices = [k \in Stamps \X Markets |-> NoRow]
    /\ alert_log = {}

\* _process_price_change (one entry of price_changes) and _process_orderbook_update share
\* this body: update the market cache, and once both sides are known upsert the row;
\* db_ok = FALSE is the insert raising, which rolls back and writes nothing.  The fast path
\* logs INSTANT ARBITRAGE before _insert_market_price is awaited, which logs ARBITRAGE once
\* more after its commit
ProviderUpdate(m, outcome, ask, ts, db_ok) ==
    /\ UNCHANGED other_than_arbVars
    /\ LET md == IF outcome = "YES"
                 THEN [provider_prices[m] EXCEPT !.yes_ask = ask, !.timestamp = ts]
                 ELSE [provider_prices[m] EXCEPT !.no_ask = ask, !.timestamp = ts]
           both == md.yes_ask # 0 /\ md.no_ask # 0
           is_arbitrage == provider_is_arbitrage(md.yes_ask + md.no_ask,
                                                 provider_spread_threshold(arb_thresholds.provider))
       IN /\ provider_prices' = [provider_prices EXCEPT ![m] = md]
          /\ alert_log' = (IF both /\ is_arbitrage THEN {"before_insert"} ELSE {})
                              \cup (IF both /\ is_arbitrage /\ db_ok THEN {"after_insert"} ELSE {})
          /\ IF md.yes_ask # 0 /\ md.no_ask # 0 /\ db_ok
             THEN binary_prices' = [binary_prices EXCEPT ![<<ts, m>>] =
                                       insert_market_price(md, provider_spread_threshold(arb_thresholds.provider))]
             ELSE UNCHANGED binary_prices
          /\ UNCHANGED <<monitor_prices, arb_thresholds>>

ProviderPriceChange ==
    \E m \in Markets, outcome \in Outcomes, ask \in Asks, ts \in Stamps, db_ok \in BOOLEAN :
        ProviderUpdate(m, outcome, ask, ts, db_ok)

ProviderBookUpdate ==
    \E m \in Markets, outcome \in Outcomes, ask \in Asks, ts \in Stamps, db_ok \in BOOLEAN :
        ProviderUpdate(m, outcome, ask, ts, db_ok)

\* _process_book_event / _process_price_change_event followed by _try_insert_price_data;
\* the row is stamped with the later of the two token timestamps, and the opportunity is
\* logged inside the try block, after the commit
MonitorUpdate(m, outcome, ask, ts, db_ok) ==
    /\ UNCHANGED other_than_arbVars
    /\ LET tp == [monitor_prices[m] EXCEPT ![outcome] = [bid |-> ask - 10, ask |-> ask, timestamp |-> ts]]
           yes_price == tp["YES"]
           no_price == tp["NO"]
           stamp == Max(yes_price.timestamp, no_price.timestamp)
           both == yes_price.ask # 0 /\ no_price.ask # 0
           is_arbitrage == monitor_is_arbitrage(yes_price.ask + no_price.ask,
                                                monitor_spread_threshold(arb_thresholds.monitor))
       IN /\ monitor_prices' = [monitor_prices EXCEPT ![m] = tp]
          /\ alert_log' = (IF both /\ is_arbitrage /\ db_ok THEN {"after_insert"} ELSE {})
          /\ IF yes_price.ask # 0 /\ no_price.ask # 0 /\ db_ok
             THEN binary_prices' = [binary_prices EXCEPT ![<<stamp, m>>] =
                                       try_insert_price_data(yes_price, no_price,
                                                             monitor_spread_threshold(arb_thresholds.monitor))]
             ELSE UNCHANGED binary_prices
          /\ UNCHANGED <<provider_prices, arb_thresholds>>

MonitorBookEvent ==
    \E m \in Markets, outcome \in Outcomes, ask \in Asks, ts \in Stamps, db_ok \in BOOLEAN :
        MonitorUpdate(m, outcome, ask, ts, db_ok)

MonitorPriceChangeEvent ==
    \E m \in Markets, outcome \in Outcomes, ask \in Asks, ts \in Stamps, db_ok \in BOOLEAN :
        MonitorUpdate(m, outcome, ask, ts, db_ok)

ArbIdle ==
    /\ arb_thresholds = [provider |-> 1000, monitor |-> 995]
    /\ provider_prices = [m \in Markets |-> [yes_ask |-> 0, no_ask |-> 0, timestamp |-> 0]]
    /\ monitor_prices = [m \in Markets |-> [o \in Outcomes |-> NoQuote]]
    /\ binary_prices = [k \in Stamps \X Markets |-> NoRow]
    /\ alert_log = {}

\* the threshold a writer was configured with, in thousandths
ConfiguredThreshold(writer) ==
    IF writer = "provider" THEN arb_thresholds.provider ELSE arb_thresholds.monitor

\* C2: every BinaryPrice row written, by the streaming provider or by the arbitrage monitor,
\* has arbitrage_opportunity true if and only if its yes_ask + no_ask is strictly less than
\* the configured spread_threshold.
ArbitrageFlagCorrect ==
    \A k \in DOMAIN binary_prices :
        binary_prices[k].written =>
            (binary_prices[k].arbitrage_opportunity
                <=> binary_prices[k].yes_ask + binary_prices[k].no_ask
                        < ConfiguredThreshold(binary_prices[k].writer))

\* C19: every price update that completes a YES/NO pair whose spread meets the arbitrage
\* condition logs the opportunity before the BinaryPrice insert is attempted, whether or not
\* the insert completes; this holds for the streaming provider and for the arbitrage monitor.
OpportunityLoggedBeforeInsert ==
    [][/\ (ProviderPriceChange \/ ProviderBookUpdate)
          => \A m \in Markets :
                (/\ provider_prices'[m] # provider_prices[m] \/ alert_log' # {}
                 /\ provider_prices'[m].yes_ask # 0 /\ provider_prices'[m].no_ask # 0
                 /\ provider_is_arbitrage(provider_prices'[m].yes_ask + provider_prices'[m].no_ask,
                                          provider_spread_threshold(arb_thresholds.provider)))
                => "before_insert" \in alert_log'
       /\ (MonitorBookEvent \/ MonitorPriceChangeEvent)
          => \A m \in Markets :
                (/\ monitor_prices'[m]["YES"].ask # 0 /\ monitor_prices'[m]["NO"].ask # 0
                 /\ monitor_is_arbitrage(monitor_prices'[m]["YES"].ask + monitor_prices'[m]["NO"].ask,
                                         monitor_spread_threshold(arb_thresholds.monitor)))
                => "before_insert" \in alert_log']_vars

(***************************************************************************)
(* Arbitrage execution: ArbitrageStrategy, PolymarketTradingClient and the *)
(* early-exit monitor of ArbitrageMonitor.  Money is in pounds, prices and *)
(* spreads in thousandths of a dollar.                                     *)
(***************************************************************************)
ExecMarkets == {"m1", "m2"}

\* ArbitrageStrategy.__init__ without a config: the defaults; min_profit_pct in thousandths
default_strategy_config == [max_position_size |-> 100, max_total_exposure |-> 400, spread_threshold |-> 980, min_profit_pct |-> 15]

\* ArbitrageMonitor.__init__: max_position_size 100 and max_total_exposure 80% of the capital
monitor_strategy_config(capital, spread_threshold, min_profit_pct) ==
    [max_position_size |-> 100, max_total_exposure |-> (capital * 8) \div 10,
     spread_threshold |-> spread_threshold, min_profit_pct |-> min_profit_pct]

\* --capital 400 (the live example of the module docstring),
\* with the default --spread-threshold 0.995 and min_profit_pct 0.005
Capitals == {400}
StrategyConfigs == {default_strategy_config} \cup {monitor_strategy_config(capital, 995, 5) : capital \in Capitals}

\* self.max_position_size, self.max_total_exposure, ... of the strategy object
StrategyConfig == strategy_config

MonitorModes == {"monitor", "paper", "live"}

\* yes_ask / no_ask of a detected opportunity, and spreads read back from binary_prices
OpportunityAsks == {<<450, 500>>, <<495, 500>>}
Spreads == {950, 990, 1000, 1030}

\* the statement of an execution that raises, if any.  The connection is not in autocommit
\* mode, so after a failed statement every further statement fails until a rollback
FailPoints == {"none", "risk", "existing", "size", "symbol_lookup", "symbol_missing", "insert",
               "insert_lost"}

OpenRows(rows) == SelectSeq(rows, LAMBDA r : r.status = "open")

RECURSIVE total_exposure(_)
total_exposure(rows) ==
    IF rows = <<>> THEN 0
    ELSE (IF Head(rows).status = "open" THEN Head(rows).exposure ELSE 0) + total_exposure(Tail(rows))

\* ArbitrageStrategy.check_risk_limits: False when the query raises
check_risk_limits(rows, db_ok) ==
    db_ok /\ ~(total_exposure(rows) >= StrategyConfig.max_total_exposure)

\* variant that tolerates one open position in the market
check_existing_position_beyond_one(rows, market_id, db_ok) ==
    db_ok /\ Len(SelectSeq(rows, LAMBDA r : r.market_id = market_id /\ r.status = "open")) > 1

\* ArbitrageStrategy.check_existing_position: False when the query raises
check_existing_position(rows, market_id, db_ok) ==
    db_ok /\ Len(SelectSeq(rows, LAMBDA r : r.market_id = market_id /\ r.status = "open")) > 0

\* ArbitrageStrategy.calculate_position_size: Decimal('0') when the query raises
arb_calculate_position_size(rows, db_ok) ==
    IF db_ok
    THEN Min(StrategyConfig.max_position_size, StrategyConfig.max_total_exposure - total_exposure(rows))
    ELSE 0

\* ArbitrageStrategy._save_position: the rows of binary_positions afterwards.  Every failure
\* but a lost connection is logged and swallowed; equal pound amounts on both sides make
\* yes_qty * yes_price + no_qty * no_price twice the position size
save_position(rows, market_id, yes_price, no_price, position_size, fail) ==
    IF fail \in {"symbol_lookup", "symbol_missing", "insert", "insert_lost"} THEN rows
    ELSE Append(rows, [id |-> Len(rows) + 1, market_id |-> market_id,
                       entry_spread |-> yes_price + no_price,
                       exposure |-> 2 * position_size, status |-> "open"])

\* ArbitrageStrategy.execute_arbitrage: [success, reason, rows, aborted]
execute_arbitrage(rows, aborted, market_id, yes_ask, no_ask, fail) ==
    LET risk_ok == ~aborted /\ fail # "risk"
        existing_ok == risk_ok /\ fail # "existing"
        size_ok == existing_ok /\ fail # "size"
        position_size == arb_calculate_position_size(rows, size_ok)
    IN IF ~check_risk_limits(rows, risk_ok)
       THEN [success |-> FALSE, reason |-> "risk", rows |-> rows, aborted |-> ~risk_ok]
       ELSE IF check_existing_position(rows, market_id, existing_ok)
       THEN [success |-> FALSE, reason |-> "existing", rows |-> rows, aborted |-> FALSE]
       ELSE IF position_size <= 0
       THEN [success |-> FALSE, reason |-> "size", rows |-> rows, aborted |-> ~size_ok]
       ELSE IF fail = "insert_lost"
       THEN [success |-> FALSE, reason |-> "exception", rows |-> rows, aborted |-> TRUE]
       ELSE [success |-> TRUE, reason |-> "",
             rows |-> save_position(rows, market_id, yes_ask, no_ask, position_size, fail),
             aborted |-> FALSE]

\* PolymarketTradingClient.place_order: the response of the venue, or an exception
OrderOutcomes == {"filled", "rejected", "error"}

\* PolymarketTradingClient.execute_paired_orders: asyncio.gather of the two place_order
\* calls; an exception of one is re-raised while the other order still runs to its end
execute_paired_orders(yes_outcome, no_outcome) ==
    [raised |-> yes_outcome = "error" \/ no_outcome = "error",
     yes_filled |-> yes_outcome = "filled", no_filled |-> no_outcome = "filled"]

\* keys of the dicts returned by ArbitrageStrategy.get_open_positions
PositionKeys == {"id", "symbol", "question", "market_id", "yes_qty", "no_qty", "yes_entry_price",
                 "no_entry_price", "entry_spread", "locked_profit", "opened_at", "end_date"}

\* ArbitrageStrategy.get_open_positions: [] when the query raises
get_open_positions(rows, db_ok) == IF db_ok THEN OpenRows(rows) ELSE <<>>

\* ArbitrageMonitor._should_exit_position; near is hours_to_resolution < 24
should_exit_position(current_spread, near) ==
    IF current_spread >= 1000 THEN TRUE
    ELSE IF current_spread > 1020 THEN TRUE
    ELSE near /\ current_spread >= 990

\* ArbitrageMonitor._exit_position: its return value; the live branch is not implemented
exit_position_result(mode) ==
    IF mode = "paper" THEN TRUE
    ELSE IF mode = "live" THEN FALSE
    ELSE TRUE

\* one pass of the while loop of monitor_positions_for_exit over the positions: the ids
\* _exit_position succeeded for, and whether the pass ended in the except branch.
\* position['symbol_id'] is read first, from a dict that holds PositionKeys
RECURSIVE scan_positions(_, _, _, _, _)
scan_positions(positions, spread, near, mode, acc) ==
    IF positions = <<>> THEN acc
    ELSE IF "symbol_id" \notin PositionKeys THEN [acc EXCEPT !.error = TRUE]
    ELSE LET p == Head(positions)
             current_spread == spread[p.market_id]
             acc2 == IF current_spread # 0 /\ should_exit_position(current_spread, near[p.market_id])
                        /\ exit_position_result(mode)
                     THEN [acc EXCEPT !.exited = @ \cup {p.id}]
                     ELSE acc
         IN scan_positions(Tail(positions), spread, near, mode, acc2)

MaxExits == 2

NoArbResult == [op |-> "none", market_id |-> "", success |-> FALSE, reason |-> "",
                exited |-> {}, error |-> FALSE, spread |-> 0, near |-> FALSE,
                yes_held |-> FALSE, no_held |-> FALSE]

AxInit ==
    /\ binary_positions = <<>>
    /\ txn_aborted = FALSE
    /\ monitor_mode \in MonitorModes
    /\ early_exits = 0
    /\ arb_result = NoArbResult
    /\ strategy_config \in StrategyConfigs

\* the latest binary_prices row of a market, as the writer with its own threshold stored it
price_row(writer, asks) ==
    IF writer = "provider"
    THEN insert_market_price([yes_ask |-> asks[1], no_ask |-> asks[2]],
                             provider_spread_threshold(arb_thresholds.provider))
    ELSE try_insert_price_data([ask |-> asks[1]], [ask |-> asks[2]],
                               monitor_spread_threshold(arb_thresholds.monitor))

\* ArbitrageStrategy.scan_opportunities: WHERE arbitrage_opportunity = true AND
\* estimated_profit_pct >= min_profit_pct * 100, with estimated_profit_pct =
\* (1 - spread) / spread * 100 as the writers store it
scan_opportunities(rows, min_profit_pct) ==
    {row \in rows : row.arbitrage_opportunity /\ (1000 - row.spread) * 1000 >= min_profit_pct * row.spread}

\* the latest binary_prices rows the strategy can find, whichever writer stored them
PriceRows == {price_row(writer, asks) : writer \in {"provider", "monitor"}, asks \in OpportunityAsks}

\* _check_opportunities: the (yes_ask, no_ask) of the opportunities scan_opportunities returns
ScannedAsks == {<<row.yes_ask, row.no_ask>> : row \in scan_opportunities(PriceRows, strategy_config.min_profit_pct)}

\* execute_arbitrage for an opportunity that scan_opportunities returned
ExecuteArbitrage ==
    /\ UNCHANGED other_than_axVars
    /\ \E market_id \in ExecMarkets, asks \in ScannedAsks, fail \in FailPoints :
         LET r == execute_arbitrage(binary_positions, txn_aborted, market_id, asks[1], asks[2], fail)
         IN /\ binary_positions' = r.rows
            /\ txn_aborted' = r.aborted
            /\ arb_result' = [NoArbResult EXCEPT !.op = "execute", !.market_id = market_id,
                                                 !.success = r.success, !.reason = r.reason]
    /\ UNCHANGED <<monitor_mode, early_exits, strategy_config>>

\* execute_paired_orders for a market; yes_held / no_held are the sides of the pair that the
\* venue holds for us when the call is over
ExecutePairedOrders ==
    /\ UNCHANGED other_than_axVars
    /\ \E market_id \in ExecMarkets, yes_outcome \in OrderOutcomes, no_outcome \in OrderOutcomes :
         LET r == execute_paired_orders(yes_outcome, no_outcome)
         IN arb_result' = [NoArbResult EXCEPT !.op = "paired", !.market_id = market_id,
                                              !.success = ~r.raised,
                                              !.yes_held = r.yes_filled, !.no_held = r.no_filled]
    /\ UNCHANGED <<binary_positions, txn_aborted, monitor_mode, early_exits, strategy_config>>

\* one 60-second pass of monitor_positions_for_exit; all markets show the same spread
MonitorScan ==
    /\ UNCHANGED other_than_axVars
    /\ \E db_ok \in BOOLEAN, s \in Spreads \cup {0}, near \in BOOLEAN :
         LET positions == get_open_positions(binary_positions, db_ok /\ ~txn_aborted)
             r == scan_positions(positions, [m \in ExecMarkets |-> s], [m \in ExecMarkets |-> near],
                                 monitor_mode, [exited |-> {}, error |-> FALSE])
         IN /\ early_exits + Cardinality(r.exited) <= MaxExits
            /\ early_exits' = early_exits + Cardinality(r.exited)
            /\ txn_aborted' = (txn_aborted \/ ~db_ok)
            /\ arb_result' = [NoArbResult EXCEPT !.op = "scan", !.exited = r.exited,
                                                 !.error = r.error, !.spread = s, !.near = near]
    /\ UNCHANGED <<binary_positions, monitor_mode, strategy_config>>

\* _exit_position called for an open position of the store
ExitPosition ==
    /\ UNCHANGED other_than_axVars
    /\ early_exits < MaxExits
    /\ \E i \in DOMAIN binary_positions, s \in Spreads :
         /\ binary_positions[i].status = "open"
         /\ arb_result' = [NoArbResult EXCEPT !.op = "exit", !.market_id = binary_positions[i].market_id,
                                              !.success = exit_position_result(monitor_mode),
                                              !.exited = {binary_positions[i].id}, !.spread = s]
         /\ early_exits' = early_exits + (IF exit_position_result(monitor_mode) THEN 1 ELSE 0)
    /\ UNCHANGED <<binary_positions, txn_aborted, monitor_mode, strategy_config>>

\* the price writer on the same connection commits or rolls back (_try_insert_price_data)
PriceWriterCommit ==
    /\ UNCHANGED other_than_axVars
    /\ txn_aborted
    /\ txn_aborted' = FALSE
    /\ UNCHANGED <<binary_positions, monitor_mode, early_exits, arb_result, strategy_config>>

AxIdle ==
    /\ binary_positions = <<>>
    /\ txn_aborted = FALSE
    /\ monitor_mode = "monitor"
    /\ early_exits = 0
    /\ arb_result = NoArbResult
    /\ strategy_config = monitor_strategy_config(500, 995, 5)

OpenInMarket(rows, market_id) ==
    Len(SelectSeq(rows, LAMBDA r : r.market_id = market_id /\ r.status = "open"))

\* C14: a paired YES+NO execution never ends with only one of the two sides held: if only
\* one order fills, the filled side is closed again.
PairedExecutionHoldsBothOrNeither ==
    arb_result.op = "paired" => (arb_result.yes_held <=> arb_result.no_held)

\* C15: an opportunity for a market that already has an open position is not executed (no
\* success, no new row), and at most one open BinaryPosition exists per market.
OnePositionPerMarket ==
    [][ExecuteArbitrage =>
         /\ \A market_id \in ExecMarkets :
               (arb_result'.market_id = market_id /\ OpenInMarket(binary_positions, market_id) > 0)
               => (~arb_result'.success /\ binary_positions' = binary_positions)
         /\ \A market_id \in ExecMarkets : OpenInMarket(binary_positions', market_id) <= 1]_vars

\* C15 case: an opportunity arrived for the market that holds the open position and was
\* turned down by the duplicate check
DuplicateOpportunitySkipped ==
    /\ arb_result.op = "execute"
    /\ arb_result.reason = "existing"
    /\ OpenInMarket(binary_positions, arb_result.market_id) = 1

\* C16: an execution reported as successful has recorded an open BinaryPosition for its
\* market; when recording fails the execution is not reported as successful.
SuccessMeansRecorded ==
    (arb_result.op = "execute" /\ arb_result.success)
    => OpenInMarket(binary_positions, arb_result.market_id) > 0

\* C17: a scan that can read the store evaluates every open position against its current
\* spread and exits it exactly when spread >= 1.00, or spread > 1.02, or the market resolves
\* within 24 hours and spread >= 0.99.
ScanExitsByRule ==
    [][(MonitorScan /\ ~txn_aborted' /\ arb_result'.spread # 0) =>
         \A i \in DOMAIN binary_positions :
            binary_positions[i].status = "open"
            => (binary_positions[i].id \in arb_result'.exited
                <=> \/ arb_result'.spread >= 1000
                    \/ arb_result'.spread > 1020
                    \/ (arb_result'.near /\ arb_result'.spread >= 990))]_vars

\* C18: after a successful early exit the position is closed: it is not open in the store,
\* so no later scan returns or exits it again.
ExitedPositionClosed ==
    [][(ExitPosition /\ arb_result'.success) =>
         \A i \in DOMAIN binary_positions' :
            binary_positions'[i].id \in arb_result'.exited
            => binary_positions'[i].status # "open"]_vars

\* C37: after any sequence of arbitrage executions the total cost of the open
\* BinaryPositions (sum of yes_qty * yes_entry + no_qty * no_entry) never exceeds
\* max_total_exposure
ExposureWithinLimit == total_exposure(binary_positions) <= strategy_config.max_total_exposure

\* C39: the strategy never executes an opportunity whose spread (yes_ask + no_ask) is greater
\* than or equal to its own configured spread_threshold
ExecutedBelowOwnThreshold ==
    \A i \in 1..Len(binary_positions) : binary_positions[i].entry_spread < strategy_config.spread_threshold

(***************************************************************************)
(* Streaming providers: connect, resubscribe on reconnect, close           *)
(***************************************************************************)
Assets == {"yes_token", "no_token"}
StreamSymbols == {"AAPL", "MSFT"}

\* PolymarketWebSocketProvider.__init__
initial_reconnect_delay == 1
max_reconnect_delay == 60

\* the fixed sleeps: listen's generic handler, Alpaca's on_close, run_polling_provider
listen_error_sleep == 5
alpaca_reconnect_sleep == 5
polling_interval == 60
polling_error_sleep == 15

\* the provider after __init__; ws is "none" (None), "open" or "closed"
NewWsProvider ==
    [ws |-> "none", is_connected |-> FALSE, subscribed_assets |-> {},
     reconnect_delay |-> initial_reconnect_delay]

\* The connection as the venue sees it: the assets the current connection is subscribed to,
\* the assets the last established connection was subscribed to when it dropped, and
\* whether the current connection was opened by the listen loop after a disconnect.
\* last_sleep is the delay slept after the latest failure and prev_sleep the delay slept
\* after the failure just before it, 0 when there was none since the last success
NoLink == [pc |-> "init", venue_assets |-> {}, prior_assets |-> {}, reestablished |-> FALSE, prev_sleep |-> 0, last_sleep |-> 0]

\* a worker sleeps delay after a failure / succeeds
slept(link, delay) == [link EXCEPT !.prev_sleep = link.last_sleep, !.last_sleep = delay]
succeeded(link) == [link EXCEPT !.prev_sleep = 0, !.last_sleep = 0]

\* PolymarketWebSocketProvider.connect
ws_connect(provider, connect_ok) ==
    IF connect_ok
    THEN [provider EXCEPT !.ws = "open", !.is_connected = TRUE,
                          !.reconnect_delay = initial_reconnect_delay]
    ELSE [provider EXCEPT !.is_connected = FALSE]

\* PolymarketWebSocketProvider.subscribe_assets: send_ok = FALSE is ws.send raising
subscribe_assets(provider, asset_ids, send_ok) ==
    IF ~provider.is_connected THEN provider
    ELSE IF send_ok
    THEN [provider EXCEPT !.subscribed_assets = provider.subscribed_assets \cup asset_ids]
    ELSE provider

\* listen: the handler of websockets.exceptions.ConnectionClosed
on_connection_closed(provider) ==
    [provider EXCEPT !.is_connected = FALSE,
                     !.reconnect_delay = Min(provider.reconnect_delay * 2, max_reconnect_delay)]

\* main.py run_polymarket_ws.start: connect, subscribe_assets(token_ids), then listen
WsStart ==
    /\ ws_link.pc = "init"
    /\ UNCHANGED <<other_than_wsVars, alpaca_provider, alpaca_link, polling_worker, monitor_loop>>
    /\ \E token_ids \in SUBSET Assets \ {{}}, connect_ok \in BOOLEAN :
         LET connected == ws_connect(ws_provider, connect_ok)
             subscribed == subscribe_assets(connected, token_ids, TRUE)
         IN /\ ws_provider' = subscribed
            /\ ws_link' = [ws_link EXCEPT !.pc = "listening",
                                          !.venue_assets = subscribed.subscribed_assets]

\* The peer closes the connection the listen loop is reading.  An abnormal closure raises
\* ConnectionClosed out of the async for; after a normal closure the iteration just ends
\* and the loop goes round with is_connected still True
ConnectionClosed ==
    /\ ws_link.pc = "listening"
    /\ ws_provider.ws = "open"
    /\ UNCHANGED <<other_than_wsVars, alpaca_provider, alpaca_link, polling_worker, monitor_loop>>
    /\ \E normal \in BOOLEAN :
         /\ ws_provider' = IF normal THEN [ws_provider EXCEPT !.ws = "closed"]
                           ELSE on_connection_closed([ws_provider EXCEPT !.ws = "closed"])
         /\ ws_link' = [(IF normal THEN ws_link ELSE slept(ws_link, ws_provider.reconnect_delay))
                           EXCEPT !.venue_assets = {},
                                  !.prior_assets = ws_link.venue_assets,
                                  !.reestablished = FALSE]

\* One iteration of the listen loop that finds is_connected False: connect, clear
\* subscribed_assets and subscribe again asset by asset, then read the socket.
\* delivered is the set of assets whose send went through before the new connection
\* dropped; delivered = the whole set is the connection staying up.
ListenReconnect ==
    /\ ws_link.pc = "listening"
    /\ ~ws_provider.is_connected
    /\ UNCHANGED <<other_than_wsVars, alpaca_provider, alpaca_link, polling_worker, monitor_loop>>
    /\ \E connect_ok \in BOOLEAN, delivered \in SUBSET ws_provider.subscribed_assets :
         LET connected == ws_connect(ws_provider, connect_ok)
             assets_to_subscribe == ws_provider.subscribed_assets
             cleared == [connected EXCEPT !.subscribed_assets = {}]
             resubscribed == subscribe_assets(cleared, delivered, TRUE)
             stays_up == connect_ok /\ delivered = assets_to_subscribe
         IN /\ (~connect_ok => delivered = {})
            /\ ws_provider' =
                 IF stays_up THEN resubscribed
                 ELSE IF connect_ok
                 THEN on_connection_closed([resubscribed EXCEPT !.ws = "closed"])
                 ELSE IF ws_provider.ws = "closed" THEN on_connection_closed(resubscribed)
                 ELSE resubscribed                \* ws is None: TypeError, generic handler
            /\ ws_link' = [(IF stays_up THEN succeeded(ws_link)
                             ELSE IF connect_ok
                             THEN slept(succeeded(ws_link), resubscribed.reconnect_delay)
                             ELSE IF ws_provider.ws = "closed"
                             THEN slept(ws_link, ws_provider.reconnect_delay)
                             ELSE slept(ws_link, listen_error_sleep))
                            EXCEPT
                             !.venue_assets = IF stays_up THEN resubscribed.subscribed_assets ELSE {},
                             !.reestablished = stays_up]

\* AlpacaWebSocketProvider.__init__; ws is "none", "connecting", "open" or "closed"
NewAlpacaProvider == [ws |-> "none", symbols |-> {}, running |-> FALSE, on_tick_callback |-> FALSE]

\* AlpacaWebSocketProvider.connect: a new WebSocketApp run by a new thread
alpaca_connect(provider, symbols, on_tick) ==
    [provider EXCEPT !.symbols = symbols, !.on_tick_callback = on_tick,
                     !.running = TRUE, !.ws = "connecting"]

\* main.py: provider.connect(list(settings.symbols), on_candle, on_tick)
AlpacaConnect ==
    /\ alpaca_provider.ws = "none"
    /\ UNCHANGED <<other_than_wsVars, ws_provider, ws_link, polling_worker, monitor_loop>>
    /\ \E symbols \in SUBSET StreamSymbols \ {{}} :
         /\ alpaca_provider' = alpaca_connect(alpaca_provider, symbols, TRUE)
         /\ alpaca_link' = [alpaca_link EXCEPT !.pc = "connecting"]

\* on_open sends the auth message; on_message answers "authenticated" with the
\* subscription to the trades of self.symbols
AlpacaAuthenticated ==
    /\ alpaca_provider.ws = "connecting"
    /\ UNCHANGED <<other_than_wsVars, ws_provider, ws_link, polling_worker, monitor_loop>>
    /\ alpaca_provider' = [alpaca_provider EXCEPT !.ws = "open"]
    /\ alpaca_link' = [succeeded(alpaca_link) EXCEPT !.venue_assets = alpaca_provider.symbols,
                                          !.reestablished = (alpaca_link.pc = "reconnecting"),
                                          !.pc = "listening"]

\* on_close, after a lost connection or a failed connection attempt: while running it
\* sleeps 5 s and calls connect(self.symbols, self.on_candle_callback)
AlpacaClosed ==
    /\ alpaca_provider.ws \in {"connecting", "open"}
    /\ alpaca_provider.running
    /\ UNCHANGED <<other_than_wsVars, ws_provider, ws_link, polling_worker, monitor_loop>>
    /\ alpaca_provider' = alpaca_connect(alpaca_provider, alpaca_provider.symbols, FALSE)
    /\ alpaca_link' = [slept(alpaca_link, alpaca_reconnect_sleep) EXCEPT
                         !.venue_assets = {},
                         !.prior_assets = IF alpaca_provider.ws = "open" THEN alpaca_link.venue_assets
                                          ELSE alpaca_link.prior_assets,
                         !.pc = IF alpaca_provider.ws = "open" THEN "reconnecting" ELSE alpaca_link.pc,
                         !.reestablished = FALSE]

\* AlpacaWebSocketProvider.stop: running is cleared before the close, so on_close does
\* not reconnect
AlpacaStop ==
    /\ alpaca_provider.ws \in {"connecting", "open"}
    /\ alpaca_provider.running
    /\ UNCHANGED <<other_than_wsVars, ws_provider, ws_link, polling_worker, monitor_loop>>
    /\ alpaca_provider' = [alpaca_provider EXCEPT !.running = FALSE, !.ws = "closed"]
    /\ alpaca_link' = [alpaca_link EXCEPT !.venue_assets = {}, !.reestablished = FALSE,
                                          !.pc = "stopped"]

\* run_polling_provider: one pass of the loop; fetch_ok = FALSE is any step of it raising
PollCycle ==
    /\ UNCHANGED <<other_than_wsVars, ws_provider, ws_link, alpaca_provider, alpaca_link, monitor_loop>>
    /\ \E fetch_ok \in BOOLEAN :
         polling_worker' = IF fetch_ok THEN [succeeded(polling_worker) EXCEPT !.pc = "polling"]
                           ELSE [slept(polling_worker, polling_error_sleep) EXCEPT !.pc = "polling"]

\* ArbitrageMonitor.start: connect, subscribe, then _monitoring_loop reads the socket;
\* a failed connect returns
MonitorStart ==
    /\ monitor_loop = "init"
    /\ UNCHANGED <<other_than_wsVars, ws_provider, ws_link, alpaca_provider, alpaca_link, polling_worker>>
    /\ \E connected \in BOOLEAN :
         monitor_loop' = IF connected THEN "processing" ELSE "returned"

\* _monitoring_loop when the peer closes the connection: the async for ends or raises
\* ConnectionClosed, which is logged, and the coroutine returns
MonitorConnectionClosed ==
    /\ monitor_loop = "processing"
    /\ UNCHANGED <<other_than_wsVars, ws_provider, ws_link, alpaca_provider, alpaca_link, polling_worker>>
    /\ monitor_loop' = "disconnected"

WsInit ==
    /\ ws_provider = NewWsProvider
    /\ ws_link = NoLink
    /\ alpaca_provider = NewAlpacaProvider
    /\ alpaca_link = NoLink
    /\ polling_worker = NoLink
    /\ monitor_loop = "init"

WsIdle ==
    /\ ws_provider = NewWsProvider
    /\ ws_link = NoLink
    /\ alpaca_provider = NewAlpacaProvider
    /\ alpaca_link = NoLink
    /\ polling_worker = NoLink
    /\ monitor_loop = "init"

\* C20: whenever a streaming provider's connection has been re-established after a
\* disconnect, whatever reconnect attempts failed in between, it is subscribed to exactly
\* the set of assets or symbols it was subscribed to before the disconnect.
ResubscribedToPriorSet ==
    /\ ws_link.reestablished => ws_link.venue_assets = ws_link.prior_assets
    /\ alpaca_link.reestablished => alpaca_link.venue_assets = alpaca_link.prior_assets

\* C21: for every ingestion worker the delay slept before a retry after consecutive
\* failures is longer than the delay slept after the failure before it, until it reaches
\* the cap, and no delay exceeds 60 seconds.
BackoffGrowsCapped ==
    \A link \in {ws_link, alpaca_link, polling_worker} :
        /\ link.last_sleep <= max_reconnect_delay
        /\ link.prev_sleep # 0 =>
              link.last_sleep > link.prev_sleep \/ link.last_sleep = max_reconnect_delay

\* a connection of the listen loop is up and being read
ListenProcessing == ws_provider.is_connected /\ ws_provider.ws = "open"

\* C22: after a disconnect, the provider's listen loop and the arbitrage monitor's
\* monitoring loop each eventually hold a connection again and process its messages.
ConsumersResume ==
    /\ (ws_link.pc = "listening" /\ ws_provider.ws = "closed") ~> ListenProcessing
    /\ (monitor_loop = "disconnected") ~> (monitor_loop = "processing")

(***************************************************************************)
(* Engine scheduler loop: main.run                                         *)
(***************************************************************************)
MaxTicks == 10

Steps == {"market_state", "lvn_alerts", "aggressive_flow", "auto_trading", "signals"}

\* the steps an iteration with this loop_count enters, before the signal pass
due_steps(loop_count, auto_trading_enabled) ==
    (IF loop_count % 5 = 0 THEN {"market_state"} ELSE {})
    \cup (IF loop_count % 2 = 0 THEN {"lvn_alerts"} ELSE {})
    \cup {"aggressive_flow"}
    \cup (IF auto_trading_enabled THEN {"auto_trading"} ELSE {})

\* run before its first iteration; ticks counts the iterations started
NewScheduler(auto_trading_enabled) ==
    [auto_trading_enabled |-> auto_trading_enabled, loop_count |-> 0, ticks |-> 0,
     running |-> TRUE, ran |-> {}, raised |-> {}, logged |-> {}, slept |-> 0,
     path |-> "none", had_error |-> FALSE]

\* variant whose steps are not wrapped: the first raising step goes to the outer handler
scheduler_iteration_unguarded(sched, raising, strategies_active) ==
    LET due == due_steps(sched.loop_count, sched.auto_trading_enabled)
        order == <<"market_state", "lvn_alerts", "aggressive_flow", "auto_trading">>
        failing == {i \in 1 .. 4 : order[i] \in due /\ order[i] \in raising}
        first == IF failing = {} THEN 5 ELSE CHOOSE i \in failing : \A j \in failing : i <= j
        ran == {order[i] : i \in {j \in 1 .. 4 : j <= first /\ order[j] \in due}}
                 \cup (IF first = 5 THEN {"signals"} ELSE {})
        raised == raising \cap ran
    IN [sched EXCEPT !.ticks = sched.ticks + 1,
                     !.loop_count = IF first = 5 THEN sched.loop_count + 1 ELSE sched.loop_count,
                     !.ran = ran, !.raised = raised, !.logged = raised, !.slept = 1,
                     !.path = IF raised # {} THEN "handler" ELSE IF strategies_active THEN "end" ELSE "idle",
                     !.had_error = sched.had_error \/ raised # {}]

\* variant without the outer handler: an exception of the signal pass ends run
scheduler_iteration_unhandled(sched, raising, strategies_active) ==
    LET ran == due_steps(sched.loop_count, sched.auto_trading_enabled) \cup {"signals"}
        raised == raising \cap ran
    IN [sched EXCEPT !.ticks = sched.ticks + 1, !.loop_count = sched.loop_count + 1,
                     !.ran = ran, !.raised = raised, !.logged = raised \ {"signals"},
                     !.running = "signals" \notin raised,
                     !.slept = IF "signals" \in raised THEN 0 ELSE 1,
                     !.path = IF "signals" \in raised THEN "raised"
                              ELSE IF strategies_active THEN "end" ELSE "idle",
                     !.had_error = sched.had_error \/ raised # {}]

\* One iteration of the while loop.  Each of the four steps has its own try/except that
\* logs the error; loop_count is incremented after them; the signal pass runs inside the
\* outer try, whose handler logs and sleeps 1 s.  path is the sleep that ended it.
scheduler_iteration(sched, raising, strategies_active) ==
    LET ran == due_steps(sched.loop_count, sched.auto_trading_enabled) \cup {"signals"}
        raised == raising \cap ran
    IN [sched EXCEPT !.ticks = sched.ticks + 1, !.loop_count = sched.loop_count + 1,
                     !.ran = ran, !.raised = raised, !.logged = raised, !.slept = 1,
                     !.path = IF "signals" \in raised THEN "handler"
                              ELSE IF strategies_active THEN "end" ELSE "idle",
                     !.had_error = sched.had_error \/ raised # {}]

SchedulerTick ==
    /\ scheduler.running
    /\ scheduler.ticks < MaxTicks
    /\ UNCHANGED other_than_schVars
    /\ \E raising \in SUBSET Steps, strategies_active \in BOOLEAN :
         scheduler' = scheduler_iteration(scheduler, raising, strategies_active)

SchInit == \E auto_trading_enabled \in BOOLEAN : scheduler = NewScheduler(auto_trading_enabled)

SchIdle == scheduler = NewScheduler(FALSE)

\* C23: in every iteration, counted from 0, market-state detection runs iff the iteration
\* number is a multiple of 5, LVN alerts iff it is even, aggressive-flow detection always and
\* auto-trading iff it is enabled, whatever steps raised in this or in earlier iterations.
SchedulerCadence ==
    scheduler.ticks > 0 =>
        LET tick == scheduler.ticks - 1
        IN /\ "market_state" \in scheduler.ran <=> tick % 5 = 0
           /\ "lvn_alerts" \in scheduler.ran <=> tick % 2 = 0
           /\ "aggressive_flow" \in scheduler.ran
           /\ "auto_trading" \in scheduler.ran <=> scheduler.auto_trading_enabled

SixthTickAfterErrors ==
    /\ scheduler.ticks = 6
    /\ scheduler.path = "handler"
    /\ {"market_state", "aggressive_flow"} \subseteq scheduler.raised

\* C24: no exception of a detector, alert, auto-trading or signal step ends the loop: the
\* loop is still running after every iteration, every exception raised in the iteration was
\* logged, and the iteration slept 1 second before the next one.
SchedulerSurvives ==
    /\ scheduler.running
    /\ scheduler.ticks > 0 => scheduler.logged = scheduler.raised /\ scheduler.slept = 1

EveryStepRaised ==
    /\ scheduler.ticks = 1
    /\ scheduler.raised = Steps
    /\ scheduler.running

(***************************************************************************)
(* HTTP clients: retries, rejections and re-authentication                 *)
(***************************************************************************)
\* what the server answers to one attempt; "timeout" is the request raising a timeout
Responses == {"ok", "4xx", "5xx", "timeout"}

\* PolymarketTradingClient.__init__: config.get('max_retries', 3)
max_retries == 3

\* the longest answer script an action draws, and the depth at which the interpreter
\* ends a recursion with RecursionError
MaxDepth == 4

\* One call is followed from its first attempt to its return
NoCall == [client |-> "none", responses |-> <<>>, auth_results |-> <<>>, attempts |-> 0, auths |-> 0, error_logs |-> 0, sleeps |-> <<>>, result |-> "none"]

\* 2 ** retry_count
RECURSIVE Pow2(_)
Pow2(n) == IF n = 0 THEN 1 ELSE 2 * Pow2(n - 1)

\* PolymarketTradingClient._request: raise_for_status turns every 4xx and 5xx status into
\* aiohttp.ClientResponseError, a ClientError, which is logged and retried max_retries
\* times; a timeout is not a ClientError and leaves at once
RECURSIVE polymarket_request(_, _, _)
polymarket_request(call, responses, retry_count) ==
    LET response == responses[retry_count + 1]
        made == [call EXCEPT !.attempts = call.attempts + 1]
    IN IF response = "ok" THEN [made EXCEPT !.result = "ok"]
       ELSE IF response = "timeout" THEN [made EXCEPT !.result = "raised"]
       ELSE LET logged == [made EXCEPT !.error_logs = made.error_logs + 1]
            IN IF retry_count < max_retries
               THEN polymarket_request([logged EXCEPT !.sleeps = Append(logged.sleeps, Pow2(retry_count))],
                                       responses, retry_count + 1)
               ELSE [logged EXCEPT !.result = "raised"]

\* PolymarketTradingClient.place_order: POST /orders; a failure is logged and re-raised
place_order(responses) ==
    LET done == polymarket_request([NoCall EXCEPT !.client = "polymarket", !.responses = responses],
                                   responses, 0)
    IN IF done.result = "raised" THEN [done EXCEPT !.error_logs = done.error_logs + 1] ELSE done

\* AlpacaTradingClient.place_bracket_order: one POST; any status other than 200/201 and
\* any exception is logged and None returned
place_bracket_order(response) ==
    [NoCall EXCEPT !.client = "alpaca", !.responses = <<response>>, !.attempts = 1,
                   !.error_logs = IF response = "ok" THEN 0 ELSE 1,
                   !.result = IF response = "ok" THEN "ok" ELSE "none"]

\* what IG answers to one attempt
IGResponses == {"ok", "401", "5xx"}

\* IGProvider.get_market_details / get_order_book: authenticate when not authenticated,
\* GET, and on 401 clear authenticated and call itself again.  The recursion has no
\* counter; the interpreter ends it at its recursion limit, MaxDepth here, with a
\* RecursionError that the enclosing handler logs.
RECURSIVE ig_get(_, _, _, _)
ig_get(call, authenticated, responses, auth_results) ==
    IF call.attempts >= MaxDepth THEN [call EXCEPT !.result = "none", !.error_logs = call.error_logs + 1]
    ELSE IF ~authenticated /\ ~auth_results[call.auths + 1]
    THEN [call EXCEPT !.auths = call.auths + 1, !.error_logs = call.error_logs + 1, !.result = "none"]
    ELSE LET authed == IF authenticated THEN call ELSE [call EXCEPT !.auths = call.auths + 1]
             made == [authed EXCEPT !.attempts = authed.attempts + 1]
             response == responses[made.attempts]
         IN IF response = "ok" THEN [made EXCEPT !.result = "ok"]
            ELSE IF response = "401"
            THEN ig_get(made, FALSE, responses, auth_results)
            ELSE [made EXCEPT !.error_logs = made.error_logs + 1, !.result = "none"]

PlaceOrder ==
    /\ http_call.client = "none"
    /\ UNCHANGED other_than_rqVars
    /\ \E responses \in [1 .. max_retries + 1 -> Responses] :
         http_call' = place_order(responses)

PlaceBracketOrder ==
    /\ http_call.client = "none"
    /\ UNCHANGED other_than_rqVars
    /\ \E response \in Responses :
         http_call' = place_bracket_order(response)

\* run_ig_provider authenticates before its loop, so a call starts authenticated
GetMarketDetails ==
    /\ http_call.client = "none"
    /\ UNCHANGED other_than_rqVars
    /\ \E responses \in [1 .. MaxDepth -> IGResponses], auth_results \in [1 .. MaxDepth -> BOOLEAN] :
         http_call' = ig_get([NoCall EXCEPT !.client = "ig_market_details", !.responses = responses,
                                            !.auth_results = auth_results],
                             TRUE, responses, auth_results)

GetOrderBook ==
    /\ http_call.client = "none"
    /\ UNCHANGED other_than_rqVars
    /\ \E responses \in [1 .. MaxDepth -> IGResponses], auth_results \in [1 .. MaxDepth -> BOOLEAN] :
         http_call' = ig_get([NoCall EXCEPT !.client = "ig_order_book", !.responses = responses,
                                            !.auth_results = auth_results],
                             TRUE, responses, auth_results)

RqInit == http_call = NoCall

RqIdle == http_call = NoCall

\* C25: an order request that the broker answers with a 4xx status is logged and the
\* request is made once only, by the Polymarket client and by the Alpaca client.
RejectedOrderNotRetried ==
    (/\ http_call.client \in {"polymarket", "alpaca"}
     /\ http_call.responses[1] = "4xx")
    => http_call.attempts = 1 /\ http_call.error_logs > 0

\* C26: a call answered 401 re-authenticates at most once and repeats the request at most
\* once; when the repeated request fails too, nothing more is tried within the call.
ReauthenticateOnce ==
    http_call.client \in {"ig_market_details", "ig_order_book"}
    => http_call.auths <= 1 /\ http_call.attempts <= 2

(***************************************************************************)
(* Profile calculator: order flow                                          *)
(***************************************************************************)
\* one-minute buckets of one symbol, and the minutes the calculator's clock may reach
MaxBucket == 4
Buckets == 1 .. MaxBucket

\* run: range(5, 0, -1), the buckets recomputed by every cycle after the first
recompute_minutes == 5

\* the delta (aggressive buys - aggressive sells) the data of a bucket gives; 0 is no data
Deltas == {0, 1, 3}

NoFlowRow == [written |-> FALSE, delta |-> 0, cumulative_delta |-> 0]

\* compute_order_flow: SELECT cumulative_delta ... WHERE bucket < %s ORDER BY bucket DESC LIMIT 1
get_last_cvd(rows, before) ==
    LET earlier == {b \in Buckets : b < before /\ rows[b].written}
    IN IF earlier = {} THEN 0
       ELSE rows[CHOOSE b \in earlier : \A c \in earlier : c <= b].cumulative_delta

\* compute_order_flow: the upsert of the bucket's row, committed at once
compute_order_flow(rows, bucket_start, delta) ==
    [rows EXCEPT ![bucket_start] = [written |-> TRUE, delta |-> delta,
                                    cumulative_delta |-> get_last_cvd(rows, bucket_start) + delta]]

\* run: the buckets from first to last in ascending order, those without data skipped;
\* an exception at a bucket of fail_at ends the pass there
RECURSIVE process_buckets(_, _, _, _, _)
process_buckets(rows, data, first, last, fail_at) ==
    IF first > last \/ first \in fail_at THEN rows
    ELSE process_buckets(IF first \in Buckets /\ data[first] # 0
                         THEN compute_order_flow(rows, first, data[first]) ELSE rows,
                         data, first + 1, last, fail_at)

\* run, first pass of a process: the buckets from MIN(time) while current < MAX(time)
first_run_cycle(rows, data, fail_at) ==
    LET with_data == {b \in Buckets : data[b] # 0}
    IN IF with_data = {} THEN rows
       ELSE LET min_time == CHOOSE b \in with_data : \A c \in with_data : b <= c
                max_time == CHOOSE b \in with_data : \A c \in with_data : c <= b
            IN process_buckets(rows, data, min_time, max_time - 1, fail_at)

\* run, later passes: the buckets now - 5 .. now - 1
later_cycle(rows, data, now_minute, fail_at) ==
    process_buckets(rows, data, now_minute - recompute_minutes, now_minute - 1, fail_at)

\* One pass of run's loop followed by its sleep: 60 s after a complete pass, 15 s after
\* an exception, so the clock is advance minutes later when the next pass starts
CalculatorCycle ==
    /\ UNCHANGED <<other_than_ofVars, bucket_data>>
    /\ \E fail_at \in {{}} \cup {{b} : b \in Buckets}, advance \in 0 .. 2 :
         /\ fail_at = {} => advance >= 1
         /\ fail_at # {} => advance <= 1
         /\ calculator.now + advance <= MaxBucket + 1
         /\ order_flow' = IF calculator.first_run
                          THEN first_run_cycle(order_flow, bucket_data, fail_at)
                          ELSE later_cycle(order_flow, bucket_data, calculator.now, fail_at)
         /\ calculator' = [first_run |-> calculator.first_run /\ fail_at # {},
                           now |-> calculator.now + advance]

\* the ingestion writes candles or ticks of a bucket that has begun, possibly late
DataArrives ==
    /\ UNCHANGED <<other_than_ofVars, order_flow, calculator>>
    /\ \E b \in Buckets, delta \in Deltas :
         /\ b <= calculator.now
         /\ delta > bucket_data[b]
         /\ bucket_data' = [bucket_data EXCEPT ![b] = delta]

\* the calculator process is started again: first_run is a local of run
CalculatorRestart ==
    /\ ~calculator.first_run
    /\ UNCHANGED <<other_than_ofVars, order_flow, bucket_data>>
    /\ calculator' = [calculator EXCEPT !.first_run = TRUE]

OfInit ==
    /\ order_flow = [b \in Buckets |-> NoFlowRow]
    /\ bucket_data = [b \in Buckets |-> 0]
    /\ calculator = [first_run |-> TRUE, now |-> 1]

OfIdle ==
    /\ order_flow = [b \in Buckets |-> NoFlowRow]
    /\ bucket_data = [b \in Buckets |-> 0]
    /\ calculator = [first_run |-> TRUE, now |-> 1]

\* C27: for every pair of consecutive order_flow rows of the symbol, the later row's
\* cumulative_delta minus the earlier row's cumulative_delta is the later row's delta,
\* after any number of calculator cycles.
CumulativeDeltaChain ==
    \A a, b \in Buckets :
        (/\ a < b
         /\ order_flow[a].written /\ order_flow[b].written
         /\ \A c \in Buckets : a < c /\ c < b => ~order_flow[c].written)
        => order_flow[b].cumulative_delta - order_flow[a].cumulative_delta = order_flow[b].delta

(***************************************************************************)
(* Volume profile metrics: POC and value area                              *)
(***************************************************************************)
\* a profile is the sequence of the volumes at its price levels in ascending price order
\* (sorted_prices / sorted_levels); a level's price is its index in that order
MaxLevels == 4
MaxVolume == 3
Profiles == UNION {[1 .. n -> 0 .. MaxVolume] : n \in 1 .. MaxLevels}

RECURSIVE volume_between(_, _, _)
volume_between(profile, lower_idx, upper_idx) == IF lower_idx > upper_idx THEN 0 ELSE profile[lower_idx] + volume_between(profile, lower_idx + 1, upper_idx)

total_volume_of(profile) == volume_between(profile, 1, Len(profile))

\* max(profile.keys(), key=...): the first level of highest volume in the dict's insertion
\* order, which depends on the order of the ticks; any level of highest volume can be first
poc_candidates(profile) == {p \in 1 .. Len(profile) : \A q \in 1 .. Len(profile) : profile[q] <= profile[p]}

\* value_area_target = total_volume * 0.70, in hundredths of a unit of volume
value_area_pct == 70

\* tie_steps: the sides taken by the expansion steps whose two candidate levels (the one
\* below and the one above the area) held equal volume
NoMetrics == [calc |-> "none", profile |-> <<>>, poc |-> 0, vah |-> 0, val |-> 0, total_volume |-> 0, tie_steps |-> {}]

\* compute_profile_metrics, the while loop: expand on the side with more volume, the lower
\* side on a tie, until the target is reached or both ends are
RECURSIVE expand_value_area(_, _, _, _, _, _)
expand_value_area(profile, lower_idx, upper_idx, value_area_volume, target, tie_steps) ==
    IF ~(100 * value_area_volume < target /\ (lower_idx > 1 \/ upper_idx < Len(profile)))
    THEN [lower_idx |-> lower_idx, upper_idx |-> upper_idx, tie_steps |-> tie_steps]
    ELSE LET lower_vol == IF lower_idx > 1 THEN profile[lower_idx - 1] ELSE 0
             upper_vol == IF upper_idx < Len(profile) THEN profile[upper_idx + 1] ELSE 0
             tied == lower_idx > 1 /\ upper_idx < Len(profile) /\ lower_vol = upper_vol
         IN IF lower_vol >= upper_vol /\ lower_idx > 1
            THEN expand_value_area(profile, lower_idx - 1, upper_idx, value_area_volume + profile[lower_idx - 1], target,
                                   IF tied THEN tie_steps \cup {"down"} ELSE tie_steps)
            ELSE IF upper_idx < Len(profile)
            THEN expand_value_area(profile, lower_idx, upper_idx + 1, value_area_volume + profile[upper_idx + 1], target,
                                   IF tied THEN tie_steps \cup {"up"} ELSE tie_steps)
            ELSE [lower_idx |-> lower_idx, upper_idx |-> upper_idx, tie_steps |-> tie_steps]

\* variant whose value area aims at half of the volume
compute_profile_metrics_half(profile, poc_price) ==
    LET area == expand_value_area(profile, poc_price, poc_price, profile[poc_price], 50 * total_volume_of(profile), {})
    IN [calc |-> "live", profile |-> profile, poc |-> poc_price, vah |-> area.upper_idx, val |-> area.lower_idx, total_volume |-> total_volume_of(profile), tie_steps |-> area.tie_steps]

\* compute_profile_metrics: the row upserted into profile_metrics
compute_profile_metrics(profile, poc_price) ==
    LET area == expand_value_area(profile, poc_price, poc_price, profile[poc_price], value_area_pct * total_volume_of(profile), {})
    IN [calc |-> "live", profile |-> profile, poc |-> poc_price, vah |-> area.upper_idx, val |-> area.lower_idx, total_volume |-> total_volume_of(profile), tie_steps |-> area.tie_steps]

\* BacktestVolumeProfileCalculator._calculate_value_area, the while loop: the upper side on a tie
RECURSIVE expand_accumulated(_, _, _, _, _, _)
expand_accumulated(price_levels, lower_idx, upper_idx, accumulated_volume, target_volume, tie_steps) ==
    LET can_expand_up   == upper_idx < Len(price_levels)
        can_expand_down == lower_idx > 1
        expand_up == IF can_expand_up /\ can_expand_down
                     THEN price_levels[upper_idx + 1] >= price_levels[lower_idx - 1]
                     ELSE can_expand_up
        tied == can_expand_up /\ can_expand_down /\ price_levels[upper_idx + 1] = price_levels[lower_idx - 1]
    IN IF ~(100 * accumulated_volume < target_volume) \/ (~can_expand_up /\ ~can_expand_down)
       THEN [lower_idx |-> lower_idx, upper_idx |-> upper_idx, tie_steps |-> tie_steps]
       ELSE IF expand_up
       THEN expand_accumulated(price_levels, lower_idx, upper_idx + 1, accumulated_volume + price_levels[upper_idx + 1], target_volume,
                               IF tied THEN tie_steps \cup {"up"} ELSE tie_steps)
       ELSE expand_accumulated(price_levels, lower_idx - 1, upper_idx, accumulated_volume + price_levels[lower_idx - 1], target_volume,
                               IF tied THEN tie_steps \cup {"down"} ELSE tie_steps)

\* BacktestVolumeProfileCalculator._calculate_value_area
calculate_value_area(price_levels, poc, total_volume) ==
    expand_accumulated(price_levels, poc, poc, price_levels[poc], value_area_pct * total_volume, {})

\* BacktestVolumeProfileCalculator.calculate_profile from the price levels on: no result
\* for a profile without volume
calculate_profile(price_levels, poc) ==
    LET total_volume == total_volume_of(price_levels)
        area == calculate_value_area(price_levels, poc, total_volume)
    IN IF total_volume = 0 THEN NoMetrics
       ELSE [calc |-> "backtest", profile |-> price_levels, poc |-> poc, vah |-> area.upper_idx, val |-> area.lower_idx, total_volume |-> total_volume, tie_steps |-> area.tie_steps]

ComputeProfileMetrics ==
    /\ profile_metrics.calc = "none"
    /\ UNCHANGED other_than_pmVars
    /\ \E profile \in Profiles : \E poc_price \in poc_candidates(profile) :
           profile_metrics' = compute_profile_metrics(profile, poc_price)

CalculateProfile ==
    /\ profile_metrics.calc = "none"
    /\ UNCHANGED other_than_pmVars
    /\ \E price_levels \in Profiles : \E poc \in poc_candidates(price_levels) :
           /\ total_volume_of(price_levels) > 0
           /\ profile_metrics' = calculate_profile(price_levels, poc)

PmInit == profile_metrics = NoMetrics
PmIdle == profile_metrics = NoMetrics

value_area_volume_of(metrics) == volume_between(metrics.profile, metrics.val, metrics.vah)

\* C28: every computed profile-metrics result has VAL <= POC <= VAH, and the volume of the
\* price levels within [VAL, VAH] is at least 70% of the profile's total volume
ValueAreaAroundPoc ==
    profile_metrics.calc # "none" =>
        /\ profile_metrics.val <= profile_metrics.poc
        /\ profile_metrics.poc <= profile_metrics.vah
        /\ 100 * value_area_volume_of(profile_metrics) >= 70 * profile_metrics.total_volume

\* C31: during value-area expansion, whenever the level above and the level below the area
\* hold equal volume, the expansion takes the level above
TiePrefersUpward == "down" \notin profile_metrics.tie_steps

\* a result whose value area was widened on both sides of the POC and stopped short of the
\* whole profile
ValueAreaStopsEarly ==
    /\ profile_metrics.calc = "live"
    /\ profile_metrics.val < profile_metrics.poc
    /\ profile_metrics.poc < profile_metrics.vah
    /\ value_area_volume_of(profile_metrics) < profile_metrics.total_volume

(***************************************************************************)
(* Market state: MarketStateDetector and BacktestMarketStateCalculator     *)
(***************************************************************************)
\* prices in cents; momentum in thousandths of a point; pressures in percent points
PocPrices == {10000}
DetectPrices == {9800, 9960, 10000, 10080, 10120, 10200, 10300}
ValPrices == {9900, 10000}
VahPrices == {10000, 10100, 10300}
Momenta == {-60000, -30000, -1000, 0, 1000, 30000, 60000}
CvdPressures == {-40, -20, 0, 20, 40}

\* distance_from_poc = abs(current_price - poc) / poc * 100 compared with a threshold given in
\* ten-thousandths of a percent
distance_below(current_price, poc, threshold) == Abs(current_price - poc) * 1000000 < threshold * poc

\* the thresholds of the two detectors: the literals of MarketStateDetector._determine_state,
\* and the defaults of BacktestMarketStateCalculator.__init__ (1.5, 1.5, 15) with the factors
\* 1.67, 1.33 and 0.33 of its _determine_state
LiveThresholds == [near |-> 5000, moderate |-> 10000, inside |-> 10000, strong |-> 50000, weak |-> 20000, cvd |-> 30]
BacktestThresholds == [near |-> 15000, moderate |-> 25050, inside |-> 19950, strong |-> 1500, weak |-> 495, cvd |-> 15]

\* the dict returned by detect_state / calculate_state
NoDetection == [calc |-> "none", state |-> "UNKNOWN", confidence |-> 0, assigned |-> FALSE, current_price |-> 0, vah |-> 0, val |-> 0, momentum_score |-> 0, cvd_pressure |-> 0]

detection(calc, r, current_price, vah, val, momentum, cvd_pressure) == [calc |-> calc, state |-> r.state, confidence |-> r.confidence, assigned |-> r.assigned, current_price |-> current_price, vah |-> vah, val |-> val, momentum_score |-> momentum, cvd_pressure |-> cvd_pressure]

\* rules 1 to 4 of _determine_state, the same in both detectors but for the thresholds: each
\* rule may assign the state and add to the confidence; assigned is whether any rule assigned
apply_rules(th, current_price, poc, vah, val, momentum, cvd_pressure) ==
    LET in_value_area == val <= current_price /\ current_price <= vah
        r1 == IF distance_below(current_price, poc, th.near)
              THEN [state |-> "BALANCE", confidence |-> 40, assigned |-> TRUE]
              ELSE IF distance_below(current_price, poc, th.moderate)
              THEN [state |-> "unset", confidence |-> 20, assigned |-> FALSE]
              ELSE [state |-> "unset", confidence |-> 30, assigned |-> FALSE]
        r2 == IF in_value_area
              THEN IF distance_below(current_price, poc, th.inside)
                   THEN [state |-> "BALANCE", confidence |-> r1.confidence + 30, assigned |-> TRUE]
                   ELSE r1
              ELSE IF current_price > vah
                   THEN [state |-> "IMBALANCE_UP", confidence |-> r1.confidence + 30, assigned |-> TRUE]
                   ELSE IF current_price < val
                   THEN [state |-> "IMBALANCE_DOWN", confidence |-> r1.confidence + 30, assigned |-> TRUE]
                   ELSE r1
        r3 == IF Abs(momentum) > th.strong
              THEN [state |-> IF momentum > 0 THEN "IMBALANCE_UP" ELSE "IMBALANCE_DOWN", confidence |-> r2.confidence + 20, assigned |-> TRUE]
              ELSE IF Abs(momentum) < th.weak
              THEN [state |-> "BALANCE", confidence |-> r2.confidence + 10, assigned |-> TRUE]
              ELSE r2
        r4 == IF Abs(cvd_pressure) > th.cvd
              THEN [state |-> IF cvd_pressure > 0 THEN "IMBALANCE_UP" ELSE "IMBALANCE_DOWN", confidence |-> r3.confidence + 10, assigned |-> TRUE]
              ELSE r3
    IN r4

\* variant that reports UNKNOWN with confidence 0 when no rule assigned a state
determine_state_unknown(current_price, poc, vah, val, momentum, cvd_pressure) ==
    LET r == apply_rules(LiveThresholds, current_price, poc, vah, val, momentum, cvd_pressure)
    IN IF ~r.assigned THEN [state |-> "UNKNOWN", confidence |-> 0, assigned |-> FALSE]
       ELSE [state |-> r.state, confidence |-> Max(0, Min(100, r.confidence)), assigned |-> TRUE]

\* MarketStateDetector._determine_state: 'state' not in locals() gives BALANCE, 50
determine_state(current_price, poc, vah, val, momentum, cvd_pressure) ==
    LET r == apply_rules(LiveThresholds, current_price, poc, vah, val, momentum, cvd_pressure)
    IN IF ~r.assigned THEN [state |-> "BALANCE", confidence |-> Max(0, Min(100, 50)), assigned |-> FALSE]
       ELSE [state |-> r.state, confidence |-> Max(0, Min(100, r.confidence)), assigned |-> TRUE]

\* BacktestMarketStateCalculator._determine_state: state = 'BALANCE' before the rules
backtest_determine_state(current_price, poc, vah, val, momentum, cvd_pressure) ==
    LET r == apply_rules(BacktestThresholds, current_price, poc, vah, val, momentum, cvd_pressure)
    IN [state |-> IF r.assigned THEN r.state ELSE "BALANCE",
        confidence |-> Min(100, Max(0, r.confidence)), assigned |-> r.assigned]

DetectState ==
    /\ detected.calc = "none"
    /\ UNCHANGED other_than_msVars
    /\ \E poc \in PocPrices, current_price \in DetectPrices, val \in ValPrices, vah \in VahPrices, momentum \in Momenta, cvd_pressure \in CvdPressures :
           detected' = detection("live", determine_state(current_price, poc, vah, val, momentum, cvd_pressure),
                                 current_price, vah, val, momentum, cvd_pressure)

CalculateState ==
    /\ detected.calc = "none"
    /\ UNCHANGED other_than_msVars
    /\ \E poc \in PocPrices, current_price \in DetectPrices, val \in ValPrices, vah \in VahPrices, momentum \in Momenta, cvd_pressure \in CvdPressures :
           detected' = detection("backtest", backtest_determine_state(current_price, poc, vah, val, momentum, cvd_pressure),
                                 current_price, vah, val, momentum, cvd_pressure)

MsInit == detected = NoDetection
MsIdle == detected = NoDetection

\* C32 as stated: whenever none of the classification rules assigns a state, the detector
\* outputs state UNKNOWN with confidence 0
NoRuleGivesUnknown ==
    (detected.calc # "none" /\ ~detected.assigned) => (detected.state = "UNKNOWN" /\ detected.confidence = 0)

\* C32: whenever none of the classification rules assigns a state, the detector outputs state
\* BALANCE, the live detector with confidence 50 and the backtest calculator with the
\* confidence the first rule added (20 or 30)
NoRuleDefaultsToBalance ==
    (detected.calc # "none" /\ ~detected.assigned) =>
        /\ detected.state = "BALANCE"
        /\ detected.calc = "live" => detected.confidence = 50
        /\ detected.calc = "backtest" => detected.confidence \in {20, 30}

\* a live detection in which no rule assigned a state
NoRuleAssigned == detected.calc = "live" /\ ~detected.assigned

(***************************************************************************)
(* Alpaca trade aggregation: _handle_trade, _emit_completed_bars, the      *)
(* on_tick and on_candle callbacks of main.py                              *)
(***************************************************************************)
\* the minutes trades are stamped with, the trades handled in one run, and the trade prices
MaxMinute == 3
MaxTrades == 4
Minutes == 1..MaxMinute
TradePrices == {1, 2}

NoCandle == [open |-> 0, high |-> 0, low |-> 0, close |-> 0, volume |-> 0]

\* _handle_trade: the bar of the trade's minute is created from the trade or updated by it
aggregate_trade(bars, bar_time, price, size) ==
    IF bars[bar_time] = NoCandle
    THEN [bars EXCEPT ![bar_time] = [open |-> price, high |-> price, low |-> price,
                                     close |-> price, volume |-> size]]
    ELSE [bars EXCEPT ![bar_time] = [open |-> bars[bar_time].open,
                                     high |-> Max(bars[bar_time].high, price),
                                     low |-> Min(bars[bar_time].low, price),
                                     close |-> price,
                                     volume |-> bars[bar_time].volume + size]]

\* _emit_completed_bars: the bars older than the minute of the trade just handled are removed
\* from current_bars and passed to on_candle_callback
emit_completed_bars(bars, current_bar_time) ==
    LET completed == {m \in Minutes : bars[m] # NoCandle /\ m < current_bar_time}
    IN [completed |-> completed,
        bars |-> [m \in Minutes |-> IF m \in completed THEN NoCandle ELSE bars[m]]]

\* insert_candle: INSERT ... ON CONFLICT (time, symbol_id) DO UPDATE SET every column
insert_candle(table, ts, candle) == [table EXCEPT ![ts] = candle]

\* _handle_trade for one trade of a symbol: a trade without price is dropped; the tick goes to
\* on_tick_callback if one is set; the trade is aggregated and the completed bars are emitted
handle_trade(provider, bars, table, counts, bar_time, price, size) ==
    IF price = 0
    THEN [bars |-> bars, table |-> table, counts |-> counts, tick |-> FALSE]
    ELSE LET e == emit_completed_bars(aggregate_trade(bars, bar_time, price, size), bar_time)
         IN [bars |-> e.bars,
             table |-> [m \in Minutes |-> IF m \in e.completed
                                          THEN insert_candle(table, m, aggregate_trade(bars, bar_time, price, size)[m])[m]
                                          ELSE table[m]],
             counts |-> [m \in Minutes |-> IF m \in e.completed THEN counts[m] + 1 ELSE counts[m]],
             tick |-> provider.on_tick_callback]

\* on_message with a trade ("T": "t") of a subscribed symbol, on the authenticated connection
HandleTrade ==
    /\ alpaca_provider.ws = "open"
    /\ trades_received < MaxTrades
    /\ UNCHANGED other_than_agVars
    /\ \E bar_time \in Minutes, price \in TradePrices :
         LET r == handle_trade(alpaca_provider, current_bars, candle_table, emitted, bar_time, price, 1)
         IN /\ current_bars' = r.bars
            /\ candle_table' = r.table
            /\ emitted' = r.counts
            /\ trades_received' = trades_received + 1
            /\ ticks_forwarded' = IF r.tick THEN ticks_forwarded + 1 ELSE ticks_forwarded

AgInit ==
    /\ current_bars = [m \in Minutes |-> NoCandle]
    /\ candle_table = [m \in Minutes |-> NoCandle]
    /\ emitted = [m \in Minutes |-> 0]
    /\ trades_received = 0
    /\ ticks_forwarded = 0

AgIdle ==
    /\ current_bars = [m \in Minutes |-> NoCandle]
    /\ candle_table = [m \in Minutes |-> NoCandle]
    /\ emitted = [m \in Minutes |-> 0]
    /\ trades_received = 0
    /\ ticks_forwarded = 0

\* C38: for any arrival order of trades, a late trade included, the aggregator emits at most
\* one candle per (symbol, minute), so a candle already stored is never overwritten by a later
\* partial bar of the same minute
OneCandlePerMinute == \A m \in Minutes : emitted[m] <= 1

\* C40: after the WebSocket closed and reconnected any number of times, every trade received
\* is still forwarded to the tick callback registered at the initial connect
EveryTradeForwarded == ticks_forwarded = trades_received

(***************************************************************************)
(* Specifications: one per subsystem; the other subsystems stay idle       *)
(***************************************************************************)
StInitAll == StInit /\ RiskIdle /\ BtIdle /\ OmIdle /\ AtIdle /\ ArbIdle /\ AxIdle /\ WsIdle /\ SchIdle /\ RqIdle /\ OfIdle /\ PmIdle /\ MsIdle /\ AgIdle
StNext == EvaluateShared \/ EvaluateLive
SpecStrategy == StInitAll /\ [][StNext]_vars

RiskInitAll == RiskInit /\ StIdle /\ BtIdle /\ OmIdle /\ AtIdle /\ ArbIdle /\ AxIdle /\ WsIdle /\ SchIdle /\ RqIdle /\ OfIdle /\ PmIdle /\ MsIdle /\ AgIdle
RiskNext == CanOpenPosition
SpecRisk == RiskInitAll /\ [][RiskNext]_vars

BtInitAll == BtInit /\ StIdle /\ RiskIdle /\ OmIdle /\ AtIdle /\ ArbIdle /\ AxIdle /\ WsIdle /\ SchIdle /\ RqIdle /\ OfIdle /\ PmIdle /\ MsIdle /\ AgIdle
BtNext == BtBars \/ BtEntries \/ BtCloseRemaining \/ BtSave
SpecBacktest == BtInitAll /\ [][BtNext]_vars

OmInitAll == OmInit /\ StIdle /\ RiskIdle /\ BtIdle /\ AtIdle /\ ArbIdle /\ AxIdle /\ WsIdle /\ SchIdle /\ RqIdle /\ OfIdle /\ PmIdle /\ MsIdle /\ AgIdle
OmNext == TrackOrder \/ BrokerUpdate \/ Tick \/ CheckOrders \/ ReconcileOrders
SpecOrders == OmInitAll /\ [][OmNext]_vars

AtInitAll == AtInit /\ StIdle /\ RiskIdle /\ BtIdle /\ OmIdle /\ ArbIdle /\ AxIdle /\ WsIdle /\ SchIdle /\ RqIdle /\ OfIdle /\ PmIdle /\ MsIdle /\ AgIdle
AtNext == CheckAndExecute \/ AtBrokerFill \/ AtPositionClosed
SpecAuto == AtInitAll /\ [][AtNext]_vars

ArbInitAll == ArbInit /\ StIdle /\ RiskIdle /\ BtIdle /\ OmIdle /\ AtIdle /\ AxIdle /\ WsIdle /\ SchIdle /\ RqIdle /\ OfIdle /\ PmIdle /\ MsIdle /\ AgIdle
ArbNext == ProviderPriceChange \/ ProviderBookUpdate \/ MonitorBookEvent \/ MonitorPriceChangeEvent
SpecPrices == ArbInitAll /\ [][ArbNext]_vars

AxInitAll == AxInit /\ StIdle /\ RiskIdle /\ BtIdle /\ OmIdle /\ AtIdle /\ ArbIdle /\ WsIdle /\ SchIdle /\ RqIdle /\ OfIdle /\ PmIdle /\ MsIdle /\ AgIdle
AxNext == ExecuteArbitrage \/ ExecutePairedOrders \/ MonitorScan \/ ExitPosition \/ PriceWriterCommit
SpecArbitrage == AxInitAll /\ [][AxNext]_vars

WsInitAll == WsInit /\ StIdle /\ RiskIdle /\ BtIdle /\ OmIdle /\ AtIdle /\ ArbIdle /\ AxIdle /\ SchIdle /\ RqIdle /\ OfIdle /\ PmIdle /\ MsIdle /\ AgIdle
WsNext == WsStart \/ ConnectionClosed \/ ListenReconnect \/ AlpacaConnect \/ AlpacaAuthenticated \/ AlpacaClosed \/ AlpacaStop \/ PollCycle \/ MonitorStart \/ MonitorConnectionClosed
SpecStream == WsInitAll /\ [][WsNext]_vars

\* The loops keep running, and the network lets a connection attempt succeed again and again
Reestablish == ListenReconnect /\ ws_link'.reestablished
SpecStreamLive == SpecStream /\ WF_vars(ListenReconnect) /\ SF_vars(Reestablish)

SchInitAll == SchInit /\ StIdle /\ RiskIdle /\ BtIdle /\ OmIdle /\ AtIdle /\ ArbIdle /\ AxIdle /\ WsIdle /\ RqIdle /\ OfIdle /\ PmIdle /\ MsIdle /\ AgIdle
SchNext == SchedulerTick
SpecScheduler == SchInitAll /\ [][SchNext]_vars

RqInitAll == RqInit /\ StIdle /\ RiskIdle /\ BtIdle /\ OmIdle /\ AtIdle /\ ArbIdle /\ AxIdle /\ WsIdle /\ SchIdle /\ OfIdle /\ PmIdle /\ MsIdle /\ AgIdle
RqNext == PlaceOrder \/ PlaceBracketOrder \/ GetMarketDetails \/ GetOrderBook
SpecRequests == RqInitAll /\ [][RqNext]_vars

OfInitAll == OfInit /\ StIdle /\ RiskIdle /\ BtIdle /\ OmIdle /\ AtIdle /\ ArbIdle /\ AxIdle /\ WsIdle /\ SchIdle /\ RqIdle /\ PmIdle /\ MsIdle /\ AgIdle
OfNext == CalculatorCycle \/ DataArrives \/ CalculatorRestart
SpecOrderFlow == OfInitAll /\ [][OfNext]_vars

PmInitAll == PmInit /\ StIdle /\ RiskIdle /\ BtIdle /\ OmIdle /\ AtIdle /\ ArbIdle /\ AxIdle /\ WsIdle /\ SchIdle /\ RqIdle /\ OfIdle /\ MsIdle /\ AgIdle
PmNext == ComputeProfileMetrics \/ CalculateProfile
SpecMetrics == PmInitAll /\ [][PmNext]_vars

MsInitAll == MsInit /\ StIdle /\ RiskIdle /\ BtIdle /\ OmIdle /\ AtIdle /\ ArbIdle /\ AxIdle /\ WsIdle /\ SchIdle /\ RqIdle /\ OfIdle /\ PmIdle /\ AgIdle
MsNext == DetectState \/ CalculateState
SpecDetector == MsInitAll /\ [][MsNext]_vars

AgInitAll == AgInit /\ StIdle /\ RiskIdle /\ BtIdle /\ OmIdle /\ AtIdle /\ ArbIdle /\ AxIdle /\ WsIdle /\ SchIdle /\ RqIdle /\ OfIdle /\ PmIdle /\ MsIdle
AgNext == AlpacaConnect \/ AlpacaAuthenticated \/ AlpacaClosed \/ AlpacaStop \/ HandleTrade
SpecAggregator == AgInitAll /\ [][AgNext]_vars

\* the whole system: every subsystem may step
Init == StInit /\ RiskInit /\ BtInit /\ OmInit /\ AtInit /\ ArbInit /\ AxInit /\ WsInit /\ SchInit /\ RqInit /\ OfInit /\ PmInit /\ MsInit /\ AgInit
Next == StNext \/ RiskNext \/ BtNext \/ OmNext \/ AtNext \/ ArbNext \/ AxNext \/ WsNext \/ SchNext \/ RqNext \/ OfNext \/ PmNext \/ MsNext \/ AgNext
Spec == Init /\ [][Next]_vars

====
